---- MODULE Spec2Model ----
(***************************************************************************)
(* Control plane of the LinkedIn automation backend: the agent-plane       *)
(* route handlers (apps/backend/src/api/agent routes), the domain services *)
(* they call and the database tables behind them.                          *)
(*                                                                         *)
(* Every route handler is an async function; each awaited database round   *)
(* trip is one step of the model, so the steps of concurrently handled     *)
(* requests interleave exactly where the handlers can be suspended.        *)
(* Two reads are folded into the write that follows them because the rows  *)
(* they look for are never removed by any code path: getAgentById inside   *)
(* updateJob / createJobResult / generateAgentToken, and getJobById inside *)
(* createJobResult.                                                        *)
(*                                                                         *)
(* Timestamps are abstracted to "set / not set" (TRUE / FALSE), except     *)
(* Job.createdAt, which is a millisecond count; a null string is "null"; a *)
(* null agent id is 0.  parameters.earliestExecutionTime of a job is       *)
(* "future" when it lies beyond every pull of the behaviour, else "null".  *)
(***************************************************************************)
EXTENDS Integers, Sequences, FiniteSets, Bags, TLC

(***************************************************************************)
(* Bounds of the model                                                     *)
(***************************************************************************)
MaxJobs == 1        \* rows the Job table may hold
MaxRequests == 3    \* HTTP requests started in one behaviour
MaxQueue == 2       \* rows the Job table may hold when only pulls are made

(***************************************************************************)
(* Program constants                                                       *)
(***************************************************************************)
PullLimit == 10     \* findMany take
AssignLimit == 5    \* readyJobs.slice(0, 5)
PollIntervalSeconds == 15    \* AgentRegisterResponse.pollIntervalSeconds

AccountIds == {"a1", "a2"}
UnknownAccountId == "ax"
UserIds == {"u1", "u2"}
Slots == {"r1", "r2"}
JobIds == 1..MaxJobs
AgentIds == 1..3
TokenIds == 1..MaxRequests
Priorities == {1, 2}

AgentPlaneKinds == {"heartbeat", "jobs", "result", "events", "screenshots", "control-state"}
ResultStatuses == {"SUCCESS", "FAILED", "SKIPPED"}
EventTypes == {"ACTION_STARTED", "ACTION_COMPLETED", "WARNING", "INFO"}
TerminalStates == {"COMPLETED", "FAILED", "SKIPPED"}

VARIABLES
  accounts,     \* LinkedInAccount table: accountId -> row
  agents,       \* Agent table: agentId -> row
  tokenStore,   \* AgentManagementService.tokenStore: token -> binding, for every
                \* token minted so far; a deleted entry is kept with deleted = TRUE
                \* and expired stands for expiresAt < now
  jobs,         \* Job table: jobId -> row
  jobResults,   \* JobResult table: sequence of rows in insertion order
  riskScores,   \* RiskScore table: accountId -> riskLevel of the latest row
  auditLog,     \* AuditLog table: bag of entries
  req,          \* in-flight and answered requests: slot -> handler frame
  nreq,         \* number of requests started so far
  violations,   \* Violation table: sequence of rows in insertion (detectedAt) order
  scores,       \* RiskScore table: accountId -> score of the latest row
  agent,        \* the agent process: its fields and its pending callbacks
  wire          \* the agent's connection: requests sent, responses received

vars == <<accounts, agents, tokenStore, jobs, jobResults, riskScores, auditLog, req, nreq,
          violations, scores, agent, wire>>

\* What no route handler of the agent plane writes.
aside == <<violations, scores, agent, wire>>

db == <<accounts, agents, tokenStore, jobs, jobResults, riskScores, auditLog>>

(***************************************************************************)
(* IEEE-754 doubles.  Every double that calculateRiskScore meets is a      *)
(* multiple of 2^-56 below 8, written <<hi, lo>> for (hi * 2^28 + lo) *    *)
(* 2^-56.                                                                  *)
(***************************************************************************)
Limb == 268435456    \* 2^28

\* The double nearest to a decimal literal of the source.
Double(literal) ==
  CASE literal = "0.0" -> <<0, 0>>
    [] literal = "0.1" -> <<26843545, 161061274>>
    [] literal = "0.2" -> <<53687091, 53687092>>
    [] literal = "0.3" -> <<80530636, 214748364>>
    [] literal = "0.5" -> <<134217728, 0>>
    [] literal = "0.6" -> <<161061273, 161061272>>
    [] literal = "0.8" -> <<214748364, 214748368>>
    [] literal = "1.0" -> <<268435456, 0>>

\* x >= y
DGeq(x, y) == x[1] > y[1] \/ (x[1] = y[1] /\ x[2] >= y[2])

\* x + y, rounded to 53 significant bits, ties to even: the exact sum keeps
\* its low bits below 2^53 * 2^-56 and loses 1 bit per binade above.
DPlus(x, y) ==
  LET lo == (x[2] + y[2]) % Limb
      hi == x[1] + y[1] + ((x[2] + y[2]) \div Limb)
      q == IF hi >= 4 * Limb THEN 64 ELSE IF hi >= 2 * Limb THEN 32
           ELSE IF hi >= Limb THEN 16 ELSE IF hi >= Limb \div 2 THEN 8
           ELSE IF hi >= Limb \div 4 THEN 4 ELSE IF hi >= Limb \div 8 THEN 2 ELSE 1
      rem == lo % q
      up == rem * 2 > q \/ (rem * 2 = q /\ (lo \div q) % 2 = 1)
      rounded == lo - rem + (IF up THEN q ELSE 0)
  IN <<hi + (rounded \div Limb), rounded % Limb>>

(***************************************************************************)
(* Rows                                                                    *)
(***************************************************************************)
NoJob == [linkedInAccountId |-> "null", state |-> "null", assignedAgentId |-> 0,
          priority |-> 0, createdAt |-> 0, earliestExecutionTime |-> "null",
          assignedAt |-> FALSE, startedAt |-> FALSE,
          completedAt |-> FALSE, failureReason |-> "null"]

NoAccount == [userId |-> "null", validationStatus |-> "null", healthStatus |-> "null"]

IdleFrame ==
  [kind |-> "idle", pc |-> "done", token |-> 0, agentId |-> 0, linkedInAccountId |-> "null",
   jobId |-> 0, status |-> "null", failureReason |-> "null", eventType |-> "null",
   query |-> "null", userId |-> "null", bearer |-> [prefix |-> "null", rest |-> "null"],
   campaignId |-> 0, name |-> "null", pollIntervalSeconds |-> 0, stage |-> "null",
   violationId |-> 0,
   list |-> <<>>, i |-> 0, job |-> NoJob, account |-> NoAccount, rowAgentId |-> 0,
   agentToken |-> 0, riskLevel |-> "null", verdict |-> [allowed |-> FALSE, reason |-> "null"],
   http |-> 0, errorCode |-> "null", message |-> "null", body |-> "null", out |-> <<>>]

(***************************************************************************)
(* Helpers                                                                 *)
(***************************************************************************)
RECURSIVE SelectSeqIdx(_, _, _)
\* findUnique over a table kept in insertion order: index of the
\* first row from position k on whose jobId is j, 0 when there is none.
SelectSeqIdx(rows, j, k) ==
  IF k > Len(rows) THEN 0
  ELSE IF rows[k].jobId = j THEN k
  ELSE SelectSeqIdx(rows, j, k + 1)

Min(a, b) == IF a <= b THEN a ELSE b

\* A slice that keeps the whole list.
TakeAll(s, n) == s

Take(s, n) == SubSeq(s, 1, Min(Len(s), n))

Busy(r) == req[r].kind # "idle" /\ req[r].pc # "done"

Quiescent == \A r \in Slots : ~Busy(r)

\* A request is handled in a free frame; frames are anonymous, so the second
\* one is only used while the first is occupied.
FreeSlot(r) == /\ ~Busy(r)
               /\ nreq < MaxRequests
               /\ (r = "r1" \/ Busy("r1"))

Respond(f, code, err, msg) ==
  [f EXCEPT !.pc = "done", !.http = code, !.errorCode = err, !.message = msg]

AuditEntry(eventType, entityType, entityId, actorId) ==
  [eventType |-> eventType, entityType |-> entityType, entityId |-> entityId, actorId |-> actorId]

\* ObservabilityService.logEvent: one more row in AuditLog.
logEvent(log, e) == log (+) SetToBag({e})

\* No violation, no score; the agent process not started.
InitRest ==
  /\ violations = <<>>
  /\ scores = [a \in AccountIds |-> Double("0.0")]
  /\ agent = [isRunning |-> FALSE, executionAllowed |-> TRUE, currentJob |-> 0, tasks |-> <<>>]
  /\ wire = [sent |-> EmptyBag, handedOut |-> 0, heard |-> "none"]

(***************************************************************************)
(* agent-management: token store                                           *)
(***************************************************************************)
NoTokenData == [agentId |-> 0, linkedInAccountId |-> "null"]

\* A lookup that still finds a token after it was deleted from the store.
validateAgentTokenStale(store, t) ==
  IF t \notin DOMAIN store \/ store[t].expired THEN NoTokenData
  ELSE [agentId |-> store[t].agentId, linkedInAccountId |-> store[t].linkedInAccountId]

\* validateAgentToken: the binding of a stored, unexpired token, else null.
validateAgentToken(store, t) ==
  IF t \notin DOMAIN store \/ store[t].deleted THEN NoTokenData
  ELSE IF store[t].expired THEN NoTokenData
  ELSE [agentId |-> store[t].agentId, linkedInAccountId |-> store[t].linkedInAccountId]


\* A validation that deletes the token it is given, expired or not.
StoreAfterValidateAlways(store, t) ==
  IF t \in DOMAIN store THEN [store EXCEPT ![t].deleted = TRUE] ELSE store

\* validateAgentToken also deletes an expired token from the store.
StoreAfterValidate(store, t) ==
  IF t \in DOMAIN store /\ ~store[t].deleted /\ store[t].expired
  THEN [store EXCEPT ![t].deleted = TRUE]
  ELSE store

\* The registration that minted token t has been answered.
Returned(t) == \A r \in Slots : ~(Busy(r) /\ req[r].kind = "register" /\ req[r].agentToken = t)

\* Bearer tokens an agent can present: those a registration has returned.
IssuedTokens == {t \in DOMAIN tokenStore : Returned(t)}

\* authenticateAgent followed by the first synchronous part of a handler:
\* a frame for a request of the given kind carrying token t, answered 401 at
\* once when the token does not validate.
authenticateAgent(t, frame) ==
  LET data == validateAgentToken(tokenStore, t) IN
  IF data = NoTokenData
  THEN Respond([frame EXCEPT !.token = t], 401, "UNAUTHORIZED", "Invalid or expired agent token")
  ELSE [frame EXCEPT !.token = t, !.agentId = data.agentId,
                     !.linkedInAccountId = data.linkedInAccountId]

(***************************************************************************)
(* job-execution: queries                                                  *)
(***************************************************************************)
\* orderBy priority desc, createdAt asc
Precedes(x, y) ==
  \/ jobs[x].priority > jobs[y].priority
  \/ jobs[x].priority = jobs[y].priority /\ jobs[x].createdAt < jobs[y].createdAt

RECURSIVE SortJobs(_)
\* The orders in which the database may return the rows S under that
\* orderBy: rows that agree on priority and createdAt come in any order.
SortJobs(S) ==
  IF S = {} THEN {<<>>}
  ELSE UNION {{<<first>> \o rest : rest \in SortJobs(S \ {first})} :
                first \in {x \in S : \A y \in S : ~Precedes(y, x)}}

\* getJobsByLinkedInAccountId(accountId, {state, limit}): the possible results
getJobsByLinkedInAccountId(a, state, limit) ==
  {Take(rows, limit) :
     rows \in SortJobs({j \in DOMAIN jobs : jobs[j].linkedInAccountId = a /\ jobs[j].state = state})}

\* getJobResultByJobId: position of the result row of a job, 0 for null
getJobResultByJobId(j) == SelectSeqIdx(jobResults, j, 1)

(***************************************************************************)
(* job-execution: service operations called by the control plane           *)
(***************************************************************************)
\* AuthIdentityService.getUserById, as "the user exists"; no route writes the
\* User table.
getUserById(u) == u \in UserIds

\* JobExecutionService.createJob at time now: the account and the creating
\* user must exist; the new row has no agent, the state and the parameters
\* the caller passes, and createdAt = CURRENT_TIMESTAMP.
createJob(a, u, state, priority, earliestExecutionTime, now) ==
  /\ a \in DOMAIN accounts
  /\ getUserById(u)
  /\ LET j == Cardinality(DOMAIN jobs) + 1 IN
     jobs' = jobs @@ (j :> [linkedInAccountId |-> a, state |-> state, assignedAgentId |-> 0,
                            priority |-> priority, createdAt |-> now,
                            earliestExecutionTime |-> earliestExecutionTime,
                            assignedAt |-> FALSE,
                            startedAt |-> FALSE, completedAt |-> FALSE,
                            failureReason |-> "null"])
  /\ UNCHANGED <<accounts, agents, tokenStore, jobResults, riskScores, auditLog, req, nreq, aside>>

\* The createdAt of the newest job row, 0 when the table is empty.
LastCreatedAt ==
  IF DOMAIN jobs = {} THEN 0
  ELSE CHOOSE c \in {jobs[j].createdAt : j \in DOMAIN jobs} :
         \A j \in DOMAIN jobs : jobs[j].createdAt <= c

\* createTestJob / campaign start: jobs are created PENDING by their owner,
\* here each in a later millisecond than the one before and ready at once.
CreateJob ==
  /\ Cardinality(DOMAIN jobs) < MaxJobs
  /\ \E a \in AccountIds :
       createJob(a, accounts[a].userId, "PENDING", 1, "null", LastCreatedAt + 1)

(***************************************************************************)
(* GET /agent/jobs                                                         *)
(***************************************************************************)
GetJobsStart(r) ==
  /\ FreeSlot(r)
  /\ \E t \in IssuedTokens :
       /\ req' = [req EXCEPT ![r] =
                    authenticateAgent(t, [IdleFrame EXCEPT !.kind = "jobs", !.pc = "findMany"])]
       /\ tokenStore' = StoreAfterValidate(tokenStore, t)
  /\ nreq' = nreq + 1 /\ UNCHANGED aside
  /\ UNCHANGED <<accounts, agents, jobs, jobResults, riskScores, auditLog>>

\* const jobs = await getJobsByLinkedInAccountId(accountId, {state: 'PENDING', limit: 10});
\* readyJobs = jobs; the loop runs over readyJobs.slice(0, 5).
GetJobsFindMany(r) ==
  /\ req[r].kind = "jobs" /\ req[r].pc = "findMany"
  /\ \E found \in getJobsByLinkedInAccountId(req[r].linkedInAccountId, "PENDING", PullLimit) :
       LET ready == Take(found, AssignLimit) IN
       req' = [req EXCEPT ![r] =
                 IF Len(ready) = 0
                 THEN Respond(@, 200, "null", "null")
                 ELSE [@ EXCEPT !.list = ready, !.i = 1, !.pc = "updateJob"]]
  /\ UNCHANGED <<db, nreq, aside>>

\* An assignment that moves the state and leaves assignedAgentId alone.
AssignJobNoAgent(row, agentId) == [row EXCEPT !.state = "ASSIGNED", !.assignedAt = TRUE]

\* Body of JobExecutionService.updateJob for an assignment: the row is
\* written whatever its current state is.
AssignJob(row, agentId) ==
  [row EXCEPT !.state = "ASSIGNED", !.assignedAgentId = agentId, !.assignedAt = TRUE]

\* One iteration of the assignment loop; the response is sent after the last.
GetJobsUpdateJob(r) ==
  /\ req[r].kind = "jobs" /\ req[r].pc = "updateJob"
  /\ LET f == req[r]
         j == f.list[f.i] IN
     IF f.agentId \notin DOMAIN agents
     THEN /\ req' = [req EXCEPT ![r] = Respond(@, 400, "AGENT_NOT_FOUND", "Agent not found")]
          /\ UNCHANGED jobs
     ELSE /\ jobs' = [jobs EXCEPT ![j] = AssignJob(@, f.agentId)]
          /\ req' = [req EXCEPT ![r] =
                       IF f.i = Len(f.list)
                       THEN Respond([@ EXCEPT !.out = Append(f.out, j), !.i = f.i + 1],
                                    200, "null", "null")
                       ELSE [@ EXCEPT !.out = Append(f.out, j), !.i = f.i + 1]]
  /\ UNCHANGED <<accounts, agents, tokenStore, jobResults, riskScores, auditLog, nreq, aside>>

(***************************************************************************)
(* POST /agent/jobs/:jobId/result                                          *)
(***************************************************************************)
\* Request bodies: <<status, failureReason>>; DONE is not a status.
ResultBodies == {<<"SUCCESS", "null">>, <<"FAILED", "SESSION_EXPIRED">>, <<"SKIPPED", "null">>,
                 <<"DONE", "null">>}

\* Authentication, then the synchronous validation of body.status.
PostResultStart(r) ==
  /\ FreeSlot(r)
  /\ \E t \in IssuedTokens, j \in JobIds, b \in ResultBodies :
       LET s == b[1]
           fr == b[2]
           f == authenticateAgent(t, [IdleFrame EXCEPT !.kind = "result", !.pc = "getJobById",
                                                       !.jobId = j, !.status = s,
                                                       !.failureReason = fr]) IN
       /\ req' = [req EXCEPT ![r] =
                    IF f.pc # "done" /\ s \notin ResultStatuses
                    THEN Respond(f, 400, "INVALID_REQUEST",
                                 "Invalid status. Must be SUCCESS, FAILED, or SKIPPED")
                    ELSE f]
       /\ tokenStore' = StoreAfterValidate(tokenStore, t)
  /\ nreq' = nreq + 1 /\ UNCHANGED aside
  /\ UNCHANGED <<accounts, agents, jobs, jobResults, riskScores, auditLog>>

\* A handler that takes a result in every state of the job.
CanReportResultAlways(state) == TRUE

\* job.state !== 'ASSIGNED' && job.state !== 'EXECUTING' is the refusal.
CanReportResult(state) == state = "ASSIGNED" \/ state = "EXECUTING"

\* The handler without its assignment check.
ResultJobCheckNoAssignee(f, row) ==
  IF row = NoJob
  THEN Respond(f, 404, "RESOURCE_NOT_FOUND", "Job not found")
  ELSE IF ~CanReportResult(row.state)
  THEN Respond([f EXCEPT !.job = row], 400, "INVALID_STATE", "cannot report result")
  ELSE [f EXCEPT !.job = row, !.pc = "getJobResultByJobId"]

\* The checks made on the loaded job row, in the order of the handler:
\* existence, assignment to the caller, state.
ResultJobCheck(f, row) ==
  IF row = NoJob
  THEN Respond(f, 404, "RESOURCE_NOT_FOUND", "Job not found")
  ELSE IF row.assignedAgentId # f.agentId
  THEN Respond([f EXCEPT !.job = row], 403, "FORBIDDEN", "Job is not assigned to this agent")
  ELSE IF ~CanReportResult(row.state)
  THEN Respond([f EXCEPT !.job = row], 400, "INVALID_STATE", "cannot report result")
  ELSE [f EXCEPT !.job = row, !.pc = "getJobResultByJobId"]

PostResultGetJobById(r) ==
  /\ req[r].kind = "result" /\ req[r].pc = "getJobById"
  /\ LET j == req[r].jobId
         row == IF j \in DOMAIN jobs THEN jobs[j] ELSE NoJob IN
     req' = [req EXCEPT ![r] = ResultJobCheck(@, row)]
  /\ UNCHANGED <<db, nreq, aside>>

\* Idempotency check: an existing result is returned with its stored status.
PostResultGetJobResultByJobId(r) ==
  /\ req[r].kind = "result" /\ req[r].pc = "getJobResultByJobId"
  /\ LET k == getJobResultByJobId(req[r].jobId) IN
     req' = [req EXCEPT ![r] =
               IF k # 0
               THEN Respond([@ EXCEPT !.body = jobResults[k].status],
                            200, "null", "Result already recorded")
               ELSE [@ EXCEPT !.pc = "createJobResult"]]
  /\ UNCHANGED <<db, nreq, aside>>

\* prisma.jobResult.create under the unique index JobResult_jobId_key:
\* TRUE when the insert is refused (P2002).
JobResultConflict(rows, j) == SelectSeqIdx(rows, j, 1) # 0

\* JobExecutionService.createJobResult; status is SUCCESS for SUCCESS and
\* FAILED for everything else, errorMessage is body.failureReason.
PostResultCreateJobResult(r) ==
  /\ req[r].kind = "result" /\ req[r].pc = "createJobResult"
  /\ LET f == req[r]
         st == IF f.status = "SUCCESS" THEN "SUCCESS" ELSE "FAILED" IN
     IF f.agentId \notin DOMAIN agents
     THEN /\ req' = [req EXCEPT ![r] = Respond(@, 400, "AGENT_NOT_FOUND", "Agent not found")]
          /\ UNCHANGED jobResults
     ELSE IF JobResultConflict(jobResults, f.jobId)
     THEN /\ req' = [req EXCEPT ![r] =
                       Respond(@, 409, "RESULT_EXISTS", "Job result already exists for this job")]
          /\ UNCHANGED jobResults
     ELSE /\ jobResults' = Append(jobResults, [jobId |-> f.jobId, agentId |-> f.agentId,
                                               status |-> st, errorMessage |-> f.failureReason])
          /\ req' = [req EXCEPT ![r] = [@ EXCEPT !.body = st, !.pc = "updateJob"]]
  /\ UNCHANGED <<accounts, agents, tokenStore, jobs, riskScores, auditLog, nreq, aside>>

\* newState and the data passed to updateJob after the result was inserted.
CompleteJob(row, status, failureReason) ==
  [row EXCEPT !.state = IF status = "SUCCESS" THEN "COMPLETED" ELSE "FAILED",
              !.completedAt = TRUE,
              !.failureReason = IF status = "FAILED" THEN failureReason ELSE "null"]

PostResultUpdateJob(r) ==
  /\ req[r].kind = "result" /\ req[r].pc = "updateJob"
  /\ jobs' = [jobs EXCEPT ![req[r].jobId] = CompleteJob(@, req[r].status, req[r].failureReason)]
  /\ req' = [req EXCEPT ![r] = [@ EXCEPT !.pc = "logEvent"]]
  /\ UNCHANGED <<accounts, agents, tokenStore, jobResults, riskScores, auditLog, nreq, aside>>

PostResultLogEvent(r) ==
  /\ req[r].kind = "result" /\ req[r].pc = "logEvent"
  /\ auditLog' = logEvent(auditLog, AuditEntry("JOB_RESULT_REPORTED", "Job", req[r].jobId,
                                               req[r].agentId))
  /\ req' = [req EXCEPT ![r] = Respond(@, 200, "null", "Job result recorded")]
  /\ UNCHANGED <<accounts, agents, tokenStore, jobs, jobResults, riskScores, nreq, aside>>

(***************************************************************************)
(* POST /agent/events                                                      *)
(***************************************************************************)
\* body.eventType; TRACE is not an event type.
EventBodies == {"ACTION_STARTED", "INFO", "TRACE"}

PostEventsStart(r) ==
  /\ FreeSlot(r)
  /\ \E t \in IssuedTokens, j \in JobIds, e \in EventBodies :
       LET f == authenticateAgent(t, [IdleFrame EXCEPT !.kind = "events", !.pc = "logEvent",
                                                       !.jobId = j, !.eventType = e]) IN
       /\ req' = [req EXCEPT ![r] =
                    IF f.pc # "done" /\ e \notin EventTypes
                    THEN Respond(f, 400, "INVALID_REQUEST", "Invalid eventType")
                    ELSE f]
       /\ tokenStore' = StoreAfterValidate(tokenStore, t)
  /\ nreq' = nreq + 1 /\ UNCHANGED aside
  /\ UNCHANGED <<accounts, agents, jobs, jobResults, riskScores, auditLog>>

\* The event is logged under the job id of the body before any job is loaded.
PostEventsLogEvent(r) ==
  /\ req[r].kind = "events" /\ req[r].pc = "logEvent"
  /\ auditLog' = logEvent(auditLog, AuditEntry(req[r].eventType, "Job", req[r].jobId,
                                               req[r].agentId))
  /\ req' = [req EXCEPT ![r] =
               IF req[r].eventType = "ACTION_STARTED"
               THEN [@ EXCEPT !.pc = "getJobById"]
               ELSE Respond(@, 200, "null", "success")]
  /\ UNCHANGED <<accounts, agents, tokenStore, jobs, jobResults, riskScores, nreq, aside>>

\* if (job && job.state === 'ASSIGNED')
EventJobCheck(f, row) ==
  IF row # NoJob /\ row.state = "ASSIGNED"
  THEN [f EXCEPT !.job = row, !.pc = "updateJob"]
  ELSE Respond([f EXCEPT !.job = row], 200, "null", "success")

PostEventsGetJobById(r) ==
  /\ req[r].kind = "events" /\ req[r].pc = "getJobById"
  /\ LET j == req[r].jobId
         row == IF j \in DOMAIN jobs THEN jobs[j] ELSE NoJob IN
     req' = [req EXCEPT ![r] = EventJobCheck(@, row)]
  /\ UNCHANGED <<db, nreq, aside>>

StartJob(row) == [row EXCEPT !.state = "EXECUTING", !.startedAt = TRUE]

PostEventsUpdateJob(r) ==
  /\ req[r].kind = "events" /\ req[r].pc = "updateJob"
  /\ jobs' = [jobs EXCEPT ![req[r].jobId] = StartJob(@)]
  /\ req' = [req EXCEPT ![r] = Respond(@, 200, "null", "success")]
  /\ UNCHANGED <<accounts, agents, tokenStore, jobResults, riskScores, auditLog, nreq, aside>>

(***************************************************************************)
(* Dispatch pipeline: two accounts, each with its registered agent and a   *)
(* token, as left by two POST /agent/register requests.                    *)
(***************************************************************************)
\* The entry generateAgentToken stores, before its 24 hours have passed.
TokenData(agentId, a) == [agentId |-> agentId, linkedInAccountId |-> a,
                          expired |-> FALSE, deleted |-> FALSE]

ConnectedAccount(u) == [userId |-> u, validationStatus |-> "CONNECTED", healthStatus |-> "HEALTHY"]

RegisteredAgent(a) == [linkedInAccountId |-> a, state |-> "REGISTERED",
                       lastHeartbeatAt |-> FALSE, terminatedAt |-> FALSE,
                       deletedAt |-> FALSE]

InitDispatch ==
  /\ InitRest
  /\ accounts = ("a1" :> ConnectedAccount("u1")) @@ ("a2" :> ConnectedAccount("u2"))
  /\ agents = (1 :> RegisteredAgent("a1")) @@ (2 :> RegisteredAgent("a2"))
  /\ tokenStore = (1 :> TokenData(1, "a1")) @@ (2 :> TokenData(2, "a2"))
  /\ jobs = <<>>
  /\ jobResults = <<>>
  /\ riskScores = [a \in AccountIds |-> "null"]
  /\ auditLog = EmptyBag
  /\ req = [r \in Slots |-> IdleFrame]
  /\ nreq = 0

NextDispatch ==
  \/ CreateJob
  \/ \E r \in Slots : GetJobsStart(r)
  \/ \E r \in Slots : GetJobsFindMany(r)
  \/ \E r \in Slots : GetJobsUpdateJob(r)
  \/ \E r \in Slots : PostResultStart(r)
  \/ \E r \in Slots : PostResultGetJobById(r)
  \/ \E r \in Slots : PostResultGetJobResultByJobId(r)
  \/ \E r \in Slots : PostResultCreateJobResult(r)
  \/ \E r \in Slots : PostResultUpdateJob(r)
  \/ \E r \in Slots : PostResultLogEvent(r)
  \/ \E r \in Slots : PostEventsStart(r)
  \/ \E r \in Slots : PostEventsLogEvent(r)
  \/ \E r \in Slots : PostEventsGetJobById(r)
  \/ \E r \in Slots : PostEventsUpdateJob(r)

SpecDispatch == InitDispatch /\ [][NextDispatch]_vars

\* Pulls and results only.
NextResult ==
  \/ CreateJob
  \/ \E r \in Slots : GetJobsStart(r)
  \/ \E r \in Slots : GetJobsFindMany(r)
  \/ \E r \in Slots : GetJobsUpdateJob(r)
  \/ \E r \in Slots : PostResultStart(r)
  \/ \E r \in Slots : PostResultGetJobById(r)
  \/ \E r \in Slots : PostResultGetJobResultByJobId(r)
  \/ \E r \in Slots : PostResultCreateJobResult(r)
  \/ \E r \in Slots : PostResultUpdateJob(r)
  \/ \E r \in Slots : PostResultLogEvent(r)

SpecResult == InitDispatch /\ [][NextResult]_vars

\* The dispatch pipeline after a single POST /agent/register, for account a1.
InitOneAgent ==
  /\ InitRest
  /\ accounts = ("a1" :> ConnectedAccount("u1")) @@ ("a2" :> ConnectedAccount("u2"))
  /\ agents = (1 :> RegisteredAgent("a1"))
  /\ tokenStore = (1 :> TokenData(1, "a1"))
  /\ jobs = <<>>
  /\ jobResults = <<>>
  /\ riskScores = [a \in AccountIds |-> "null"]
  /\ auditLog = EmptyBag
  /\ req = [r \in Slots |-> IdleFrame]
  /\ nreq = 0

SpecOneAgent == InitOneAgent /\ [][NextDispatch]_vars

TypeOK == /\ DOMAIN jobs = 1..Cardinality(DOMAIN jobs)
          /\ DOMAIN agents \subseteq AgentIds
          /\ DOMAIN tokenStore \subseteq TokenIds
          /\ nreq \in 0..MaxRequests

(***************************************************************************)
(* Properties of the dispatch pipeline                                     *)
(***************************************************************************)
Range(s) == {s[k] : k \in 1..Len(s)}

\* Answered GET /agent/jobs requests whose response contains job j.
PullsReturning(j) ==
  {r \in Slots : req[r].kind = "jobs" /\ req[r].pc = "done" /\ req[r].http = 200
                 /\ j \in Range(req[r].out)}

\* C1: a job is contained in the response of at most one pull, and a job a
\* pull returned is assigned to the agent of that pull.
C1_PullExactlyOnce ==
  \A j \in DOMAIN jobs :
    /\ Cardinality(PullsReturning(j)) <= 1
    /\ \A r \in PullsReturning(j) :
         jobs[j].state # "PENDING" /\ jobs[j].assignedAgentId = req[r].agentId

ResultRowsOf(j) == {k \in 1..Len(jobResults) : jobResults[k].jobId = j}

StateMatches(state, status) ==
  \/ status = "SUCCESS" /\ state = "COMPLETED"
  \/ status = "FAILED" /\ state \in {"FAILED", "SKIPPED"}

\* C2: in every state each job has at most one JobResult row, and a job that
\* has one is in the terminal state matching the result's status.
C2_ResultImpliesTerminal ==
  \A j \in DOMAIN jobs :
    /\ Cardinality(ResultRowsOf(j)) <= 1
    /\ \A k \in ResultRowsOf(j) : StateMatches(jobs[j].state, jobResults[k].status)

\* The result a request carries was accepted before: the caller's result row
\* with the same status and failure reason is stored and the job was moved to
\* its terminal state.
ResultAccepted(f) ==
  /\ f.jobId \in DOMAIN jobs
  /\ jobs[f.jobId].assignedAgentId = f.agentId
  /\ jobs[f.jobId].state \in TerminalStates
  /\ \E k \in ResultRowsOf(f.jobId) :
       /\ jobResults[k].agentId = f.agentId
       /\ jobResults[k].status = (IF f.status = "SUCCESS" THEN "SUCCESS" ELSE "FAILED")
       /\ jobResults[k].errorMessage = f.failureReason

\* Requests handled one after the other: a request is started only when
\* every earlier one has been answered.
NextSequential ==
  \/ CreateJob
  \/ \E r \in Slots : Quiescent /\ GetJobsStart(r)
  \/ \E r \in Slots : GetJobsFindMany(r)
  \/ \E r \in Slots : GetJobsUpdateJob(r)
  \/ \E r \in Slots : Quiescent /\ PostResultStart(r)
  \/ \E r \in Slots : PostResultGetJobById(r)
  \/ \E r \in Slots : PostResultGetJobResultByJobId(r)
  \/ \E r \in Slots : PostResultCreateJobResult(r)
  \/ \E r \in Slots : PostResultUpdateJob(r)
  \/ \E r \in Slots : PostResultLogEvent(r)
  \/ \E r \in Slots : Quiescent /\ PostEventsStart(r)
  \/ \E r \in Slots : PostEventsLogEvent(r)
  \/ \E r \in Slots : PostEventsGetJobById(r)
  \/ \E r \in Slots : PostEventsUpdateJob(r)

SpecSequential == InitDispatch /\ [][NextSequential]_vars

\* C3: a result request that repeats a result accepted before it arrived is
\* answered 200 with the stored status and 'Result already recorded', and
\* changes neither the job nor the JobResult table.
C3_IdempotentResult ==
  [][\A r \in Slots :
       (/\ req[r].kind = "result"
        /\ req[r].pc \in {"getJobById", "getJobResultByJobId"}
        /\ ResultAccepted(req[r])
        /\ req'[r].pc = "done")
       => /\ req'[r].http = 200
          /\ req'[r].message = "Result already recorded"
          /\ req'[r].body = (IF req[r].status = "SUCCESS" THEN "SUCCESS" ELSE "FAILED")
          /\ jobs' = jobs
          /\ jobResults' = jobResults]_vars

Rank(state) ==
  CASE state = "PENDING" -> 0
    [] state = "ASSIGNED" -> 1
    [] state = "EXECUTING" -> 2
    [] OTHER -> 3

\* C4: every change of a job's state moves it forward along
\* PENDING -> ASSIGNED -> EXECUTING -> terminal, and a terminal job never
\* changes state again.
C4_MonotoneState ==
  [][\A j \in DOMAIN jobs :
       \/ jobs'[j].state = jobs[j].state
       \/ Rank(jobs[j].state) < Rank(jobs'[j].state)]_vars

\* The account a job id of a request belongs to differs from the token's.
ForeignJob(f) ==
  /\ f.jobId \in DOMAIN jobs
  /\ f.linkedInAccountId # "null"
  /\ jobs[f.jobId].linkedInAccountId # f.linkedInAccountId

\* C9: an authenticated result or event request naming a job of another
\* account is answered 403 FORBIDDEN, and no audit entry about a job is
\* written by an agent of another account.
C9_TokenScope ==
  /\ \A r \in Slots :
       (req[r].kind \in {"result", "events"} /\ req[r].pc = "done" /\ ForeignJob(req[r]))
         => (req[r].http = 403 /\ req[r].errorCode = "FORBIDDEN")
  /\ \A e \in BagToSet(auditLog) :
       (e.entityType = "Job" /\ e.entityId \in DOMAIN jobs /\ e.actorId \in DOMAIN agents)
         => agents[e.actorId].linkedInAccountId = jobs[e.entityId].linkedInAccountId

\* A result request that loaded a job assigned to another agent, or to none.
NotAssignee(f) ==
  f.kind = "result" /\ f.job # NoJob /\ f.job.assignedAgentId # f.agentId

NotOwnJob(f) == f.jobId \notin DOMAIN jobs \/ jobs[f.jobId].assignedAgentId # f.agentId

\* C11: no step of an event request whose job does not exist or is not
\* assigned to the reporting agent changes a job, and such a request is not
\* answered with success.
C11_EventRejected ==
  [][\A r \in Slots :
       (/\ req[r].kind = "events" /\ Busy(r)
        /\ NotOwnJob(req[r])
        /\ req'[r] # req[r])
       => /\ jobs' = jobs
          /\ req'[r].pc = "done" => req'[r].http >= 400]_vars


\* C32: the step that answers an ACTION_STARTED event for a job in state
\* ASSIGNED leaves it EXECUTING with startedAt set; every other step of an
\* event request, whatever the event type, leaves every job as it was; and
\* the logEvent step of an event request adds one audit entry.
C32_EventEffect ==
  [][\A r \in Slots :
       req[r].kind = "events" /\ Busy(r) /\ req'[r] # req[r]
       => /\ \A j \in DOMAIN jobs :
               IF /\ req[r].eventType = "ACTION_STARTED" /\ j = req[r].jobId
                  /\ jobs[j].state = "ASSIGNED" /\ req'[r].pc = "done"
               THEN jobs'[j].state = "EXECUTING" /\ jobs'[j].startedAt
               ELSE jobs'[j] = jobs[j]
          /\ BagCardinality(auditLog') =
               BagCardinality(auditLog) + (IF req[r].pc = "logEvent" THEN 1 ELSE 0)]_vars

\* The terminal state the contract gives a job for a reported status.
TerminalFor(status) ==
  CASE status = "SUCCESS" -> "COMPLETED"
    [] status = "FAILED" -> "FAILED"
    [] OTHER -> "SKIPPED"

\* C12: the step of a result request that moves the job leaves it COMPLETED
\* for SUCCESS, FAILED with the submitted failureReason for FAILED and SKIPPED
\* for SKIPPED, with completedAt set.
C12_TerminalByStatus ==
  [][\A r \in Slots :
       (req[r].kind = "result" /\ req[r].pc = "updateJob" /\ req'[r].pc # "updateJob")
       => LET row == jobs'[req[r].jobId] IN
          /\ row.state = TerminalFor(req[r].status)
          /\ row.completedAt
          /\ req[r].status = "FAILED" => row.failureReason = req[r].failureReason]_vars

\* A result request of the assignee that loaded the job in a state other than
\* ASSIGNED or EXECUTING.
NotReportable(f) ==
  /\ f.kind = "result" /\ f.job # NoJob
  /\ f.job.assignedAgentId = f.agentId
  /\ f.job.state \notin {"ASSIGNED", "EXECUTING"}

QueueAccount == "a1"

ExecutionTimes == {"null", "future"}

CreateQueuedJob ==
  /\ Cardinality(DOMAIN jobs) < MaxQueue
  /\ \E p \in Priorities, e \in ExecutionTimes, now \in {LastCreatedAt, LastCreatedAt + 1} :
       createJob(QueueAccount, accounts[QueueAccount].userId, "PENDING", p, e, now)

NextQueue ==
  \/ CreateQueuedJob
  \/ \E r \in Slots : GetJobsStart(r)
  \/ \E r \in Slots : GetJobsFindMany(r)
  \/ \E r \in Slots : GetJobsUpdateJob(r)

SpecQueue == InitDispatch /\ [][NextQueue]_vars

\* The order of the contract: priority descending, createdAt ascending,
\* jobId ascending.
Before(x, y) ==
  \/ jobs[x].priority > jobs[y].priority
  \/ jobs[x].priority = jobs[y].priority /\ jobs[x].createdAt < jobs[y].createdAt
  \/ jobs[x].priority = jobs[y].priority /\ jobs[x].createdAt = jobs[y].createdAt /\ x < y

\* A PENDING job of account a whose earliestExecutionTime does not lie ahead.
Eligible(j, a) ==
  /\ jobs[j].linkedInAccountId = a
  /\ jobs[j].state = "PENDING"
  /\ jobs[j].earliestExecutionTime = "null"

\* C15: the jobs a pull takes from the queue are in the order of the
\* contract, and every eligible PENDING job of the account that precedes a
\* taken job in that order is taken too.
C15_PullOrder ==
  [][\A r \in Slots :
       (req[r].kind = "jobs" /\ req[r].pc = "findMany" /\ req'[r].pc = "updateJob")
       => LET taken == req'[r].list IN
          /\ \A i, k \in 1..Len(taken) : i < k => Before(taken[i], taken[k])
          /\ \A k \in 1..Len(taken), y \in DOMAIN jobs :
               (Eligible(y, req[r].linkedInAccountId) /\ Before(y, taken[k]))
                 => y \in Range(taken)]_vars

\* C16: a job whose earliestExecutionTime lies ahead stays PENDING and is in
\* the response of no pull.
C16_NotBeforeEarliest ==
  \A j \in DOMAIN jobs :
    jobs[j].earliestExecutionTime = "future"
      => /\ jobs[j].state = "PENDING"
         /\ \A r \in Slots : req[r].kind = "jobs" => j \notin Range(req[r].out)

(***************************************************************************)
(* risk-safety: the execution verdict                                      *)
(***************************************************************************)
ValidationStatuses == {"CONNECTED", "EXPIRED", "DISCONNECTED"}
HealthStatuses == {"HEALTHY", "DEGRADED", "SUSPENDED"}
RiskLevels == {"LOW", "MEDIUM", "HIGH", "CRITICAL"}

Verdict(allowed, reason) == [allowed |-> allowed, reason |-> reason]

\* A verdict that does not look at the risk score.
isExecutionAllowedNoRisk(account, riskLevel) ==
  IF account = NoAccount THEN Verdict(FALSE, "SESSION_INVALID")
  ELSE IF account.healthStatus = "SUSPENDED" THEN Verdict(FALSE, "RISK_PAUSE")
  ELSE IF account.validationStatus \in {"EXPIRED", "DISCONNECTED"}
  THEN Verdict(FALSE, "SESSION_INVALID")
  ELSE Verdict(TRUE, "null")

\* RiskSafetyService.isExecutionAllowed on the account row it loaded (NoAccount
\* for null) and the level of the latest RiskScore row ("null" for none).
isExecutionAllowed(account, riskLevel) ==
  IF account = NoAccount THEN Verdict(FALSE, "SESSION_INVALID")
  ELSE IF account.healthStatus = "SUSPENDED" THEN Verdict(FALSE, "RISK_PAUSE")
  ELSE IF riskLevel = "CRITICAL" THEN Verdict(FALSE, "RISK_PAUSE")
  ELSE IF account.validationStatus \in {"EXPIRED", "DISCONNECTED"}
  THEN Verdict(FALSE, "SESSION_INVALID")
  ELSE Verdict(TRUE, "null")

getLinkedInAccountById(a) == IF a \in DOMAIN accounts THEN accounts[a] ELSE NoAccount

\* A score read once when the account had none, and kept.
getCachedRiskScore(a) == "null"

\* getLatestRiskScore(a).riskLevel
getLatestRiskScore(a) == IF a \in DOMAIN riskScores THEN riskScores[a] ELSE "null"

\* The verdict the oracle gives for account a in the current state.
ExecutionAllowed(a) == isExecutionAllowed(getLinkedInAccountById(a), getLatestRiskScore(a)).allowed

\* LinkedInAccountService.updateLinkedInAccount(a, {validationStatus, healthStatus})
updateLinkedInAccount(a, validationStatus, healthStatus) ==
  /\ a \in DOMAIN accounts
  /\ accounts' = [accounts EXCEPT ![a] = [@ EXCEPT !.validationStatus = validationStatus,
                                                   !.healthStatus = healthStatus]]
  /\ UNCHANGED <<agents, tokenStore, jobs, jobResults, riskScores, auditLog, req, nreq, aside>>

\* The insert that ends calculateRiskScore: the new row becomes the latest
\* score of the account; only the latest row is ever read.
createRiskScore(a, riskLevel) ==
  /\ a \in DOMAIN accounts
  /\ riskScores' = [riskScores EXCEPT ![a] = riskLevel]
  /\ UNCHANGED <<accounts, agents, tokenStore, jobs, jobResults, auditLog, req, nreq, aside>>

RECURSIVE ViolationScore(_, _)
\* recentViolations.forEach(v => score += severityWeight), over the rows
\* 1..k of the given list taken newest first (orderBy detectedAt desc).
\* severityWeight is { LOW: 0.1, MEDIUM: 0.3, HIGH: 0.6, CRITICAL: 1.0 }[v.severity] || 0.1
ViolationScore(rows, k) ==
  IF k = Len(rows) + 1 THEN Double("0.0")
  ELSE LET severity == rows[k].severity
           severityWeight == CASE severity = "LOW" -> Double("0.1")
                               [] severity = "MEDIUM" -> Double("0.3")
                               [] severity = "HIGH" -> Double("0.6")
                               [] severity = "CRITICAL" -> Double("1.0")
                               [] OTHER -> Double("0.1")
       IN DPlus(ViolationScore(rows, k + 1), severityWeight)

\* Rows of account a that are unresolved and detected in the last 7 days.
recentViolations(a) ==
  SelectSeq(violations, LAMBDA v : v.linkedInAccountId = a /\ ~v.resolvedAt /\ v.recent)

\* The score calculateRiskScore computes for an existing account a.
RiskScoreOf(a) ==
  LET sum == ViolationScore(recentViolations(a), 1)
      h == accounts[a].healthStatus
      score == IF h = "SUSPENDED" THEN DPlus(sum, Double("0.5"))
               ELSE IF h = "DEGRADED" THEN DPlus(sum, Double("0.2")) ELSE sum
  IN IF DGeq(score, Double("1.0")) THEN Double("1.0") ELSE score

\* score >= 0.8 CRITICAL, >= 0.6 HIGH, >= 0.3 MEDIUM, else LOW
RiskLevelOf(score) ==
  IF DGeq(score, Double("0.8")) THEN "CRITICAL"
  ELSE IF DGeq(score, Double("0.6")) THEN "HIGH"
  ELSE IF DGeq(score, Double("0.3")) THEN "MEDIUM" ELSE "LOW"

(***************************************************************************)
(* Veto: pulls against an account whose status and risk score change       *)
(* between requests, next to an account that stays connected and healthy.  *)
(***************************************************************************)
VetoAccount == "a1"

VetoUpdateAccount ==
  /\ Quiescent
  /\ \E a \in {VetoAccount}, v \in ValidationStatuses, h \in HealthStatuses :
       /\ <<v, h>> # <<accounts[a].validationStatus, accounts[a].healthStatus>>
       /\ updateLinkedInAccount(a, v, h)

VetoRiskScore ==
  /\ Quiescent
  /\ \E a \in {VetoAccount}, l \in RiskLevels :
       /\ getLatestRiskScore(a) # l
       /\ createRiskScore(a, l)

NextVeto ==
  \/ CreateJob
  \/ VetoUpdateAccount
  \/ VetoRiskScore
  \/ \E r \in Slots : GetJobsStart(r)
  \/ \E r \in Slots : GetJobsFindMany(r)
  \/ \E r \in Slots : GetJobsUpdateJob(r)

SpecVeto == InitDispatch /\ [][NextVeto]_vars

\* C5: no step of a pull handler taken while the oracle disallows execution
\* for its account moves a job, and a pull answered in such a step returns an
\* empty list.
C5_VetoObedience ==
  [][\A r \in Slots :
       (/\ req'[r] # req[r]
        /\ req'[r].kind = "jobs"
        /\ req'[r].http # 401
        /\ ~ExecutionAllowed(req'[r].linkedInAccountId))
       => /\ jobs' = jobs
          /\ req'[r].pc = "done" => (req'[r].http = 200 /\ req'[r].out = <<>>)]_vars

(***************************************************************************)
(* POST /agent/register                                                    *)
(***************************************************************************)
\* Request bodies: <<userId, linkedinAccountId>>; "null" is a missing field.
RegisterBodies == (UserIds \X (AccountIds \cup {UnknownAccountId})) \cup {<<"null", "a1">>}

\* No authentication; the required fields are validated synchronously.
RegisterStart(r) ==
  /\ FreeSlot(r)
  /\ \E b \in RegisterBodies :
       LET f == [IdleFrame EXCEPT !.kind = "register", !.pc = "getLinkedInAccountById",
                                  !.userId = b[1], !.linkedInAccountId = b[2]] IN
       req' = [req EXCEPT ![r] =
                 IF b[1] = "null" \/ b[2] = "null"
                 THEN Respond(f, 400, "INVALID_REQUEST", "Missing required fields")
                 ELSE f]
  /\ nreq' = nreq + 1 /\ UNCHANGED aside
  /\ UNCHANGED db

RegisterGetLinkedInAccountById(r) ==
  /\ req[r].kind = "register" /\ req[r].pc = "getLinkedInAccountById"
  /\ LET account == getLinkedInAccountById(req[r].linkedInAccountId) IN
     req' = [req EXCEPT ![r] =
               IF account = NoAccount
               THEN Respond(@, 404, "RESOURCE_NOT_FOUND", "LinkedIn account not found")
               ELSE IF account.userId # req[r].userId
               THEN Respond(@, 403, "FORBIDDEN", "LinkedIn account does not belong to user")
               ELSE [@ EXCEPT !.account = account, !.pc = "getAgentByLinkedInAccountId"]]
  /\ UNCHANGED <<db, nreq, aside>>

\* AgentManagementService.getAgentByLinkedInAccountId: findFirst over the
\* rows of the account that are not soft-deleted; 0 for null.
getAgentByLinkedInAccountId(a) ==
  LET rows == {g \in DOMAIN agents : agents[g].linkedInAccountId = a /\ ~agents[g].deletedAt}
  IN IF rows = {} THEN 0 ELSE CHOOSE g \in rows : \A h \in rows : g <= h

\* if (!agent || agent.deletedAt) createAgent else updateAgent
RegisterGetAgent(r) ==
  /\ req[r].kind = "register" /\ req[r].pc = "getAgentByLinkedInAccountId"
  /\ LET g == getAgentByLinkedInAccountId(req[r].linkedInAccountId) IN
     req' = [req EXCEPT ![r] =
               IF g = 0
               THEN [@ EXCEPT !.pc = "createAgent"]
               ELSE [@ EXCEPT !.rowAgentId = g, !.pc = "updateAgent"]]
  /\ UNCHANGED <<db, nreq, aside>>

\* createAgent, first part: the 1:1 check made by the service itself.
RegisterCreateAgentCheck(r) ==
  /\ req[r].kind = "register" /\ req[r].pc = "createAgent"
  /\ req' = [req EXCEPT ![r] =
               IF getAgentByLinkedInAccountId(req[r].linkedInAccountId) # 0
               THEN Respond(@, 400, "AGENT_EXISTS",
                            "Agent already exists for this LinkedIn account")
               ELSE [@ EXCEPT !.pc = "agent.create"]]
  /\ UNCHANGED <<db, nreq, aside>>

\* An Agent table without the unique index on linkedInAccountId.
NoAgentIndex(rows, a) == FALSE

\* prisma.agent.create under the unique index Agent_linkedInAccountId_key:
\* TRUE when the insert is refused.
AgentConflict(rows, a) == \E g \in DOMAIN rows : rows[g].linkedInAccountId = a

\* createAgent, second part: the insert.
RegisterCreateAgentInsert(r) ==
  /\ req[r].kind = "register" /\ req[r].pc = "agent.create"
  /\ LET a == req[r].linkedInAccountId
         g == Cardinality(DOMAIN agents) + 1 IN
     IF AgentConflict(agents, a)
     THEN /\ req' = [req EXCEPT ![r] = Respond(@, 400, "CREATE_FAILED", "Failed to create agent")]
          /\ UNCHANGED agents
     ELSE /\ agents' = agents @@ (g :> RegisteredAgent(a))
          /\ req' = [req EXCEPT ![r] = [@ EXCEPT !.rowAgentId = g, !.pc = "generateAgentToken"]]
  /\ UNCHANGED <<accounts, tokenStore, jobs, jobResults, riskScores, auditLog, nreq, aside>>

\* updateAgent(agentId, {state: 'REGISTERED', lastHeartbeatAt: now})
RegisterUpdateAgent(r) ==
  /\ req[r].kind = "register" /\ req[r].pc = "updateAgent"
  /\ agents' = [agents EXCEPT ![req[r].rowAgentId] =
                  [@ EXCEPT !.state = "REGISTERED", !.lastHeartbeatAt = TRUE]]
  /\ req' = [req EXCEPT ![r] = [@ EXCEPT !.pc = "generateAgentToken"]]
  /\ UNCHANGED <<accounts, tokenStore, jobs, jobResults, riskScores, auditLog, nreq, aside>>

\* A store in which issuing a token deletes the tokens issued earlier for the
\* same account.
generateAgentTokenRevoking(store, agentId, a) ==
  LET t == Cardinality(DOMAIN store) + 1
      old == [x \in DOMAIN store |->
                IF store[x].linkedInAccountId = a THEN [store[x] EXCEPT !.deleted = TRUE]
                ELSE store[x]]
  IN old @@ (t :> TokenData(agentId, a))

\* AgentManagementService.generateAgentToken: a fresh random token is added
\* to the store; nothing else in the store is touched.
generateAgentToken(store, agentId, a) ==
  LET t == Cardinality(DOMAIN store) + 1
  IN store @@ (t :> TokenData(agentId, a))

RegisterGenerateAgentToken(r) ==
  /\ req[r].kind = "register" /\ req[r].pc = "generateAgentToken"
  /\ tokenStore' = generateAgentToken(tokenStore, req[r].rowAgentId, req[r].linkedInAccountId)
  /\ req' = [req EXCEPT ![r] = [@ EXCEPT !.agentToken = Cardinality(DOMAIN tokenStore) + 1,
                                         !.pc = "logEvent"]]
  /\ UNCHANGED <<accounts, agents, jobs, jobResults, riskScores, auditLog, nreq, aside>>

RegisterLogEvent(r) ==
  /\ req[r].kind = "register" /\ req[r].pc = "logEvent"
  /\ auditLog' = logEvent(auditLog, AuditEntry("AGENT_REGISTERED", "Agent", req[r].rowAgentId,
                                               req[r].rowAgentId))
  /\ req' = [req EXCEPT ![r] =
               Respond([@ EXCEPT !.pollIntervalSeconds = PollIntervalSeconds],
                       200, "null", "null")]
  /\ UNCHANGED <<accounts, agents, tokenStore, jobs, jobResults, riskScores, nreq, aside>>

(***************************************************************************)
(* GET /agent/control-state                                                *)
(***************************************************************************)
\* Query parameter linkedinAccountId: absent ("null"), an account, or unknown.
ControlStateStart(r) ==
  /\ FreeSlot(r)
  /\ \E t \in IssuedTokens, q \in {"null", "a1", UnknownAccountId} :
       LET f == authenticateAgent(t, [IdleFrame EXCEPT !.kind = "control-state",
                                                       !.pc = "getLinkedInAccountById",
                                                       !.query = q]) IN
       /\ req' = [req EXCEPT ![r] =
                    IF f.pc # "done" /\ q # "null" /\ q # f.linkedInAccountId
                    THEN Respond(f, 403, "FORBIDDEN", "LinkedIn account ID does not match token")
                    ELSE f]
       /\ tokenStore' = StoreAfterValidate(tokenStore, t)
  /\ nreq' = nreq + 1 /\ UNCHANGED aside
  /\ UNCHANGED <<accounts, agents, jobs, jobResults, riskScores, auditLog>>

\* isExecutionAllowed, first read: the account row.  A missing or suspended
\* account decides the verdict without a second read.
ControlStateGetAccount(r) ==
  /\ req[r].kind = "control-state" /\ req[r].pc = "getLinkedInAccountById"
  /\ LET account == getLinkedInAccountById(req[r].linkedInAccountId) IN
     req' = [req EXCEPT ![r] =
               IF account = NoAccount \/ account.healthStatus = "SUSPENDED"
               THEN Respond([@ EXCEPT !.account = account,
                                      !.verdict = isExecutionAllowed(account, "null")],
                            200, "null", "null")
               ELSE [@ EXCEPT !.account = account, !.pc = "getLatestRiskScore"]]
  /\ UNCHANGED <<db, nreq, aside>>

\* isExecutionAllowed, second read: the latest risk score, judged together
\* with the account row loaded before.
ControlStateGetLatestRiskScore(r) ==
  /\ req[r].kind = "control-state" /\ req[r].pc = "getLatestRiskScore"
  /\ LET riskLevel == getLatestRiskScore(req[r].linkedInAccountId) IN
     req' = [req EXCEPT ![r] =
               Respond([@ EXCEPT !.riskLevel = riskLevel,
                                 !.verdict = isExecutionAllowed(req[r].account, riskLevel)],
                       200, "null", "null")]
  /\ UNCHANGED <<db, nreq, aside>>

(***************************************************************************)
(* POST /agent/heartbeat                                                   *)
(***************************************************************************)
HeartbeatStatuses == {"IDLE", "EXECUTING", "PAUSED"}

\* body.status; "null" is a missing field.
HeartbeatBodies == HeartbeatStatuses \cup {"null"}

HeartbeatStart(r) ==
  /\ FreeSlot(r)
  /\ \E t \in IssuedTokens, st \in HeartbeatBodies :
       LET f == authenticateAgent(t, [IdleFrame EXCEPT !.kind = "heartbeat", !.pc = "updateAgent",
                                                       !.status = st]) IN
       /\ req' = [req EXCEPT ![r] =
                    IF f.pc # "done" /\ st \notin HeartbeatStatuses
                    THEN Respond(f, 400, "INVALID_REQUEST",
                                 "Invalid status. Must be IDLE, EXECUTING, or PAUSED")
                    ELSE f]
       /\ tokenStore' = StoreAfterValidate(tokenStore, t)
  /\ nreq' = nreq + 1 /\ UNCHANGED aside
  /\ UNCHANGED <<accounts, agents, jobs, jobResults, riskScores, auditLog>>


\* The reported status stored as it is, but for EXECUTING.
HeartbeatAgentStateAsReported(status) == IF status = "EXECUTING" THEN "ACTIVE" ELSE status

\* state: body.status === 'IDLE' ? 'IDLE' : body.status === 'EXECUTING' ? 'ACTIVE' : 'IDLE'
HeartbeatAgentState(status) ==
  IF status = "IDLE" THEN "IDLE" ELSE IF status = "EXECUTING" THEN "ACTIVE" ELSE "IDLE"

\* updateAgent(agentId, {lastHeartbeatAt: now, state}); P2025 when the row is gone.
HeartbeatUpdateAgent(r) ==
  /\ req[r].kind = "heartbeat" /\ req[r].pc = "updateAgent"
  /\ IF req[r].agentId \notin DOMAIN agents
     THEN /\ req' = [req EXCEPT ![r] = Respond(@, 400, "AGENT_NOT_FOUND", "Agent not found")]
          /\ UNCHANGED agents
     ELSE /\ agents' = [agents EXCEPT ![req[r].agentId] =
                          [@ EXCEPT !.state = HeartbeatAgentState(req[r].status),
                                    !.lastHeartbeatAt = TRUE]]
          /\ req' = [req EXCEPT ![r] = [@ EXCEPT !.pc = "getLinkedInAccountById"]]
  /\ UNCHANGED <<accounts, tokenStore, jobs, jobResults, riskScores, auditLog, nreq, aside>>

\* isExecutionAllowed, first read.
HeartbeatGetAccount(r) ==
  /\ req[r].kind = "heartbeat" /\ req[r].pc = "getLinkedInAccountById"
  /\ LET account == getLinkedInAccountById(req[r].linkedInAccountId) IN
     req' = [req EXCEPT ![r] =
               IF account = NoAccount \/ account.healthStatus = "SUSPENDED"
               THEN [@ EXCEPT !.account = account,
                              !.verdict = isExecutionAllowed(account, "null"),
                              !.pc = "logEvent"]
               ELSE [@ EXCEPT !.account = account, !.pc = "getLatestRiskScore"]]
  /\ UNCHANGED <<db, nreq, aside>>

\* isExecutionAllowed, second read.
HeartbeatGetLatestRiskScore(r) ==
  /\ req[r].kind = "heartbeat" /\ req[r].pc = "getLatestRiskScore"
  /\ LET riskLevel == getLatestRiskScore(req[r].linkedInAccountId) IN
     req' = [req EXCEPT ![r] =
               [@ EXCEPT !.riskLevel = riskLevel,
                         !.verdict = isExecutionAllowed(req[r].account, riskLevel),
                         !.pc = "logEvent"]]
  /\ UNCHANGED <<db, nreq, aside>>

\* The HEARTBEAT audit entry, then the response {allowed, reason}.
HeartbeatLogEvent(r) ==
  /\ req[r].kind = "heartbeat" /\ req[r].pc = "logEvent"
  /\ auditLog' = logEvent(auditLog, AuditEntry("HEARTBEAT", "Agent", req[r].agentId,
                                               req[r].agentId))
  /\ req' = [req EXCEPT ![r] = Respond(@, 200, "null", "null")]
  /\ UNCHANGED <<accounts, agents, tokenStore, jobs, jobResults, riskScores, nreq, aside>>

(***************************************************************************)
(* The verdict: heartbeats and control-state calls of one agent, made one  *)
(* after the other, next to an account whose status and latest risk score  *)
(* change between requests.                                                *)
(***************************************************************************)
NextVerdict ==
  \/ VetoUpdateAccount
  \/ VetoRiskScore
  \/ \E r \in Slots : Quiescent /\ HeartbeatStart(r)
  \/ \E r \in Slots : HeartbeatUpdateAgent(r)
  \/ \E r \in Slots : HeartbeatGetAccount(r)
  \/ \E r \in Slots : HeartbeatGetLatestRiskScore(r)
  \/ \E r \in Slots : HeartbeatLogEvent(r)
  \/ \E r \in Slots : Quiescent /\ ControlStateStart(r)
  \/ \E r \in Slots : ControlStateGetAccount(r)
  \/ \E r \in Slots : ControlStateGetLatestRiskScore(r)

SpecVerdict == InitOneAgent /\ [][NextVerdict]_vars

\* Every row the LinkedInAccount table can hold.
AccountRows ==
  [userId : UserIds, validationStatus : ValidationStatuses, healthStatus : HealthStatuses]

\* The verdict v the contract gives for an account row and the level of its
\* latest risk score.
VerdictTable(account, riskLevel, v) ==
  LET sessionInvalid == account = NoAccount
                        \/ account.validationStatus \in {"EXPIRED", "DISCONNECTED"}
      riskPause == account.healthStatus = "SUSPENDED" \/ riskLevel = "CRITICAL" IN
  /\ v.allowed = (~sessionInvalid /\ ~riskPause)
  /\ v.allowed => v.reason = "null"
  /\ ~v.allowed => v.reason \in {"SESSION_INVALID", "RISK_PAUSE"}
  /\ v.reason = "SESSION_INVALID" => sessionInvalid
  /\ v.reason = "RISK_PAUSE" => riskPause

\* A heartbeat or control-state request that was given a verdict.
Judged(f) == f.kind \in {"heartbeat", "control-state"} /\ f.pc = "done" /\ f.http = 200

\* C17: isExecutionAllowed follows the table of the contract: for a missing
\* account and for every account row, with every latest level or none, and
\* in every verdict a heartbeat or control-state request was given from the
\* row and level it read.
C17_VerdictTable ==
  /\ \A l \in RiskLevels \cup {"null"} :
       VerdictTable(NoAccount, l, isExecutionAllowed(getLinkedInAccountById(UnknownAccountId), l))
  /\ \A account \in AccountRows, l \in RiskLevels \cup {"null"} :
       VerdictTable(account, l, isExecutionAllowed(account, l))
  /\ \A r \in Slots :
       Judged(req[r]) => VerdictTable(req[r].account, req[r].riskLevel, req[r].verdict)

\* C17 witness: a connected, healthy account was refused for its CRITICAL
\* latest score.
C17_Witness ==
  \E r \in Slots : /\ Judged(req[r])
                   /\ req[r].account.validationStatus = "CONNECTED"
                   /\ req[r].account.healthStatus = "HEALTHY"
                   /\ req[r].riskLevel = "CRITICAL"
                   /\ req[r].verdict = Verdict(FALSE, "RISK_PAUSE")

\* The reasons for which execution on account a is vetoed in the current state.
Vetoes(a) ==
  (IF accounts[a].healthStatus = "SUSPENDED" \/ riskScores[a] = "CRITICAL"
   THEN {"RISK_PAUSE"} ELSE {})
  \cup (IF accounts[a].validationStatus \in {"EXPIRED", "DISCONNECTED"}
        THEN {"SESSION_INVALID"} ELSE {})

\* C18: the account row and the latest score change only between requests;
\* every heartbeat and every control-state call is answered with the verdict
\* of the account row and latest score of the moment: refused, with a reason
\* that applies, while a veto stands, and allowed otherwise.
C18_NoStaleVerdict ==
  [][\A r \in Slots :
       (/\ req[r].kind \in {"heartbeat", "control-state"} /\ Busy(r)
        /\ req'[r].pc = "done" /\ req'[r].http = 200)
       => LET a == req[r].linkedInAccountId
              v == req'[r].verdict IN
          /\ Vetoes(a) # {} => (~v.allowed /\ v.reason \in Vetoes(a))
          /\ Vetoes(a) = {} => (v.allowed /\ v.reason = "null")]_vars

\* C18 witness: after the latest score of a healthy, connected account became
\* CRITICAL, a heartbeat was refused with RISK_PAUSE.
C18_Witness ==
  \E r \in Slots :
    /\ req[r].kind = "heartbeat" /\ Judged(req[r])
    /\ req[r].linkedInAccountId = VetoAccount
    /\ riskScores[VetoAccount] = "CRITICAL"
    /\ accounts[VetoAccount] = ConnectedAccount("u1")
    /\ req[r].verdict = Verdict(FALSE, "RISK_PAUSE")

(***************************************************************************)
(* A session: pulls, events, results and heartbeats of one agent, each     *)
(* request made after the one before was answered.                         *)
(***************************************************************************)
NextSession ==
  \/ NextSequential
  \/ \E r \in Slots : Quiescent /\ HeartbeatStart(r)
  \/ \E r \in Slots : HeartbeatUpdateAgent(r)
  \/ \E r \in Slots : HeartbeatGetAccount(r)
  \/ \E r \in Slots : HeartbeatGetLatestRiskScore(r)
  \/ \E r \in Slots : HeartbeatLogEvent(r)

SpecSession == InitOneAgent /\ [][NextSession]_vars

\* A session next to an account whose latest risk score changes.
SpecVetoedSession == InitOneAgent /\ [][NextSession \/ VetoRiskScore]_vars

SessionExpiredCommitted(a) ==
  \E k \in 1..Len(jobResults) :
    LET j == jobResults[k].jobId IN
    /\ jobResults[k].status = "FAILED"
    /\ jobResults[k].errorMessage = "SESSION_EXPIRED"
    /\ jobs[j].linkedInAccountId = a
    /\ jobs[j].state = "FAILED"
    /\ jobs[j].failureReason = "SESSION_EXPIRED"

\* C19: once a result {FAILED, SESSION_EXPIRED} is committed for a job of an
\* account, the account's validationStatus is EXPIRED, and a heartbeat made
\* after that is answered {allowed: false, reason: SESSION_INVALID}.
C19_SessionExpiredPropagates ==
  /\ [](\A a \in AccountIds :
          SessionExpiredCommitted(a) => accounts[a].validationStatus = "EXPIRED")
  /\ [][\A r \in Slots :
          (/\ req[r].kind = "heartbeat" /\ Busy(r)
           /\ SessionExpiredCommitted(req[r].linkedInAccountId)
           /\ req'[r].pc = "done" /\ req'[r].http = 200)
          => req'[r].verdict = Verdict(FALSE, "SESSION_INVALID")]_vars

\* The audit entries about job j.
JobEntries(j) ==
  LET about == {e \in BagToSet(auditLog) : e.entityType = "Job" /\ e.entityId = j}
  IN [e \in about |-> CopiesIn(e, auditLog)]

\* The least number of successful state changes, creation included, behind
\* a job in the given state.
StateChanges(state) ==
  CASE state = "PENDING" -> 1
    [] state = "ASSIGNED" -> 2
    [] OTHER -> 3

\* C20: whenever no request is in progress, the audit log holds, for every
\* job, at least one entry with entityType Job and the job's id per state
\* change the job has made, its creation included.
C20_AuditedTransitions ==
  Quiescent =>
    \A j \in DOMAIN jobs : BagCardinality(JobEntries(j)) >= StateChanges(jobs[j].state)

(***************************************************************************)
(* Registration: the backend right after the accounts were created.        *)
(***************************************************************************)
\* Time passes beyond the expiresAt of a token; tokens expire in the order
\* in which they were issued.
ExpireToken ==
  /\ \E t \in DOMAIN tokenStore :
       /\ ~tokenStore[t].expired
       /\ \A x \in DOMAIN tokenStore : x < t => tokenStore[x].expired
       /\ tokenStore' = [tokenStore EXCEPT ![t].expired = TRUE]
  /\ UNCHANGED <<accounts, agents, jobs, jobResults, riskScores, auditLog, req, nreq, aside>>

InitRegister ==
  /\ InitRest
  /\ accounts = ("a1" :> ConnectedAccount("u1")) @@ ("a2" :> ConnectedAccount("u2"))
  /\ agents = <<>>
  /\ tokenStore = <<>>
  /\ jobs = <<>>
  /\ jobResults = <<>>
  /\ riskScores = [a \in AccountIds |-> "null"]
  /\ auditLog = EmptyBag
  /\ req = [r \in Slots |-> IdleFrame]
  /\ nreq = 0

NextRegister ==
  \/ ExpireToken
  \/ \E r \in Slots : RegisterStart(r)
  \/ \E r \in Slots : RegisterGetLinkedInAccountById(r)
  \/ \E r \in Slots : RegisterGetAgent(r)
  \/ \E r \in Slots : RegisterCreateAgentCheck(r)
  \/ \E r \in Slots : RegisterCreateAgentInsert(r)
  \/ \E r \in Slots : RegisterUpdateAgent(r)
  \/ \E r \in Slots : RegisterGenerateAgentToken(r)
  \/ \E r \in Slots : RegisterLogEvent(r)
  \/ \E r \in Slots : ControlStateStart(r)
  \/ \E r \in Slots : ControlStateGetAccount(r)
  \/ \E r \in Slots : ControlStateGetLatestRiskScore(r)

SpecRegister == InitRegister /\ [][NextRegister]_vars

(***************************************************************************)
(* Properties of registration and tokens                                   *)
(***************************************************************************)
\* A later registration for the account of token t has returned a newer token.
Superseded(t) ==
  \E t2 \in DOMAIN tokenStore :
    /\ t2 > t
    /\ tokenStore[t2].linkedInAccountId = tokenStore[t].linkedInAccountId
    /\ Returned(t2)

\* Token t is the newest token of its account and its 24 hours have not passed.
Current(t) ==
  /\ ~tokenStore[t].expired /\ ~tokenStore[t].deleted
  /\ Returned(t)
  /\ \A t2 \in DOMAIN tokenStore :
       tokenStore[t2].linkedInAccountId = tokenStore[t].linkedInAccountId => t2 <= t

\* C6: an agent-plane request that arrives with a token superseded by a
\* re-registration is answered 401 UNAUTHORIZED, and one that arrives with the
\* current token of the account is authenticated.
C6_TokenRotation ==
  [][\A r \in Slots :
       (nreq' = nreq + 1 /\ req'[r] # req[r] /\ req'[r].kind \in AgentPlaneKinds)
       => /\ Superseded(req'[r].token)
               => (req'[r].http = 401 /\ req'[r].errorCode = "UNAUTHORIZED")
          /\ Current(req'[r].token) => req'[r].http # 401]_vars

\* Tokens of account a that validateAgentToken accepts.
ValidTokens(a) ==
  {t \in DOMAIN tokenStore : /\ validateAgentToken(tokenStore, t) # NoTokenData
                             /\ tokenStore[t].linkedInAccountId = a}

\* C7: in every state at most one token bound to an account is accepted by
\* validateAgentToken.
C7_OneValidToken == \A a \in AccountIds : Cardinality(ValidTokens(a)) <= 1

\* Agent rows of account a that are neither terminated nor deleted.
LiveAgents(a) ==
  {g \in DOMAIN agents : /\ agents[g].linkedInAccountId = a
                         /\ ~agents[g].terminatedAt /\ ~agents[g].deletedAt}

\* C8: in every state each account has at most one agent row that is not
\* terminated or deleted.
C8_OneAgentPerAccount == \A a \in AccountIds : Cardinality(LiveAgents(a)) <= 1

\* C8 witness: two registrations for one account raced past the service's own
\* check and the second insert was refused.
C8_Witness ==
  \E r \in Slots : /\ req[r].kind = "register"
                   /\ req[r].errorCode = "CREATE_FAILED"
                   /\ Cardinality(LiveAgents(req[r].linkedInAccountId)) = 1



\* C22: POST /agent/register with a missing required field is answered 400
\* INVALID_REQUEST, with an unknown account 404 RESOURCE_NOT_FOUND, with an
\* account of another user 403 FORBIDDEN, in each case having created no agent
\* and no token; every other registration is answered with pollIntervalSeconds
\* 15 and a token bound to (agentId, accountId) of the account's single agent
\* row, which is in state REGISTERED and is the row the account had before.
C22_Register ==
  [][\A r \in Slots :
       (req'[r] # req[r] /\ req'[r].kind = "register" /\ req'[r].pc = "done")
       => LET f == req'[r]
              a == f.linkedInAccountId
              g == getAgentByLinkedInAccountId(a)
          IN IF f.userId = "null" \/ a \notin DOMAIN accounts \/ accounts[a].userId # f.userId
             THEN /\ f.http = (IF f.userId = "null" THEN 400
                               ELSE IF a \notin DOMAIN accounts THEN 404 ELSE 403)
                  /\ f.errorCode = (IF f.userId = "null" THEN "INVALID_REQUEST"
                                    ELSE IF a \notin DOMAIN accounts THEN "RESOURCE_NOT_FOUND"
                                    ELSE "FORBIDDEN")
                  /\ f.rowAgentId = 0 /\ f.agentToken = 0
                  /\ UNCHANGED <<agents, tokenStore>>
             ELSE /\ f.http = 200
                  /\ f.pollIntervalSeconds = PollIntervalSeconds
                  /\ LiveAgents(a) = {f.rowAgentId}
                  /\ g = 0 \/ g = f.rowAgentId
                  /\ agents'[f.rowAgentId].state = "REGISTERED"
                  /\ f.agentToken \in DOMAIN tokenStore
                  /\ tokenStore[f.agentToken].agentId = f.rowAgentId
                  /\ tokenStore[f.agentToken].linkedInAccountId = a
                  /\ ~tokenStore[f.agentToken].expired
                       => validateAgentToken(tokenStore, f.agentToken)
                            = [agentId |-> f.rowAgentId, linkedInAccountId |-> a]]_vars



\* C25: the errorCode of every error response is one of the closed set; in
\* particular no response carries a code that reports a duplicate result.
C25_ClosedErrorCodes ==
  \A r \in Slots :
    req[r].errorCode # "null"
      => req[r].errorCode \in {"UNAUTHORIZED", "FORBIDDEN", "RESOURCE_NOT_FOUND",
                               "INVALID_REQUEST", "INVALID_STATE", "RATE_LIMITED",
                               "RISK_PAUSED", "SESSION_INVALID", "INTERNAL_ERROR"}


(***************************************************************************)
(* JobExecutionService.createJob called with every input its signature     *)
(* admits                                                                  *)
(***************************************************************************)
\* Job.state
JobStates == {"PENDING", "ASSIGNED", "EXECUTING", "COMPLETED", "FAILED", "SKIPPED"}

\* createJob(data): ACCOUNT_NOT_FOUND or USER_NOT_FOUND is thrown before the
\* insert; otherwise the row is inserted with data.state.
CreateJobCall ==
  /\ Cardinality(DOMAIN jobs) < MaxQueue
  /\ \E a \in AccountIds \cup {UnknownAccountId}, u \in UserIds \cup {"ux"},
        state \in JobStates, p \in Priorities :
       IF a \in DOMAIN accounts /\ getUserById(u)
       THEN createJob(a, u, state, p, "null", LastCreatedAt + 1)
       ELSE UNCHANGED vars

SpecCreate == InitOneAgent /\ [][CreateJobCall]_vars

\* C30: createJob persists nothing for a missing account or user, and every
\* row it inserts is in state PENDING with no assigned agent.
C30_CreatedPending ==
  [][\A j \in DOMAIN jobs' \ DOMAIN jobs :
       /\ jobs'[j].linkedInAccountId \in DOMAIN accounts
       /\ jobs'[j].state = "PENDING"
       /\ jobs'[j].assignedAgentId = 0]_vars

(***************************************************************************)
(* Token validation: heartbeats next to revocation and expiry              *)
(***************************************************************************)
\* Authorization headers that carry no token of the store: 0 is a request
\* without a Bearer header, -1 a bearer generateAgentToken never returned
\* (a user token, for one).
ForeignBearers == {0, -1}

\* AgentManagementService.revokeAgentToken: tokenStore.delete(token).
revokeAgentToken(store, t) ==
  IF t \in DOMAIN store THEN [store EXCEPT ![t].deleted = TRUE] ELSE store

RevokeAgentToken ==
  /\ \E t \in IssuedTokens \cup ForeignBearers :
       /\ tokenStore' = revokeAgentToken(tokenStore, t)
       /\ tokenStore' # tokenStore
  /\ UNCHANGED <<accounts, agents, jobs, jobResults, riskScores, auditLog, req, nreq, aside>>

\* router.use(authenticateAgent) for a request whose bearer does not
\* validate: every agent-plane route but /register answers 401 before its
\* handler runs.
RejectedAgentStart(r) ==
  /\ FreeSlot(r)
  /\ \E kind \in AgentPlaneKinds, t \in IssuedTokens \cup ForeignBearers :
       /\ validateAgentToken(tokenStore, t) = NoTokenData
       /\ req' = [req EXCEPT ![r] = authenticateAgent(t, [IdleFrame EXCEPT !.kind = kind])]
       /\ tokenStore' = StoreAfterValidate(tokenStore, t)
  /\ nreq' = nreq + 1 /\ UNCHANGED aside
  /\ UNCHANGED <<accounts, agents, jobs, jobResults, riskScores, auditLog>>

NextToken ==
  \/ RevokeAgentToken
  \/ ExpireToken
  \/ \E r \in Slots : RejectedAgentStart(r)
  \/ \E r \in Slots : HeartbeatStart(r)
  \/ \E r \in Slots : HeartbeatUpdateAgent(r)
  \/ \E r \in Slots : HeartbeatGetAccount(r)
  \/ \E r \in Slots : HeartbeatGetLatestRiskScore(r)
  \/ \E r \in Slots : HeartbeatLogEvent(r)

SpecToken == InitOneAgent /\ [][NextToken]_vars

\* C23: a heartbeat that arrives with a token that was issued and is neither
\* revoked nor expired is authenticated as the (agentId, accountId) the store
\* holds for it, which never changes after issuance; one that arrives with a
\* token never issued, revoked or expired is answered 401 UNAUTHORIZED and
\* changes no agent row; a revoked or expired token never becomes valid again.
C23_TokenValidation ==
  /\ [][\A r \in Slots :
          (nreq' = nreq + 1 /\ req'[r] # req[r] /\ req'[r].kind = "heartbeat")
          => LET t == req'[r].token IN
             IF t \in DOMAIN tokenStore /\ ~tokenStore[t].deleted /\ ~tokenStore[t].expired
             THEN /\ req'[r].http # 401
                  /\ req'[r].agentId = tokenStore[t].agentId
                  /\ req'[r].linkedInAccountId = tokenStore[t].linkedInAccountId
                  /\ agents[req'[r].agentId].linkedInAccountId = req'[r].linkedInAccountId
             ELSE /\ req'[r].http = 401 /\ req'[r].errorCode = "UNAUTHORIZED"
                  /\ req'[r].pc = "done"
                  /\ agents' = agents]_vars
  /\ [][\A t \in DOMAIN tokenStore :
          /\ t \in DOMAIN tokenStore'
          /\ tokenStore'[t].agentId = tokenStore[t].agentId
          /\ tokenStore'[t].linkedInAccountId = tokenStore[t].linkedInAccountId
          /\ tokenStore[t].deleted => tokenStore'[t].deleted
          /\ tokenStore[t].expired => tokenStore'[t].expired]_vars

\* C23 witness: a heartbeat carrying a revoked, unexpired token was answered
\* 401 while the agent of the token had never had a heartbeat recorded.
C23_Witness ==
  \E r \in Slots :
    /\ req[r].kind = "heartbeat" /\ req[r].http = 401
    /\ req[r].token \in DOMAIN tokenStore
    /\ tokenStore[req[r].token].deleted /\ ~tokenStore[req[r].token].expired
    /\ ~agents[tokenStore[req[r].token].agentId].lastHeartbeatAt

(***************************************************************************)
(* Control plane: user authentication and the campaign routes              *)
(***************************************************************************)
MaxCampaigns == 2    \* campaign ids a behaviour may create
CampaignIds == 1..MaxCampaigns
\* Authorization headers a dashboard request can carry: none, a bearer that
\* does not start with user_ (an agent token), user_<id> of a missing user
\* and user_<id> of each user.  The User table is not written by any route.
UserBearers ==
  {[prefix |-> "null", rest |-> "null"], [prefix |-> "agent_", rest |-> "null"]}
    \cup {[prefix |-> "user_", rest |-> u] : u \in UserIds \cup {"ux"}}

\* authenticateUser up to its await: 401 without a Bearer header or when the
\* token does not start with user_, else the handler frame waits for getUserById.
authenticateUser(b, frame) ==
  IF b.prefix = "null"
  THEN Respond([frame EXCEPT !.bearer = b], 401, "UNAUTHORIZED",
               "Missing or invalid authorization header")
  ELSE IF b.prefix # "user_"
  THEN Respond([frame EXCEPT !.bearer = b], 401, "UNAUTHORIZED", "Invalid token format")
  ELSE [frame EXCEPT !.bearer = b, !.pc = "getUserById"]

\* An authenticator that does not look the user up.
UserFoundUnchecked(f, next) == [f EXCEPT !.userId = f.bearer.rest, !.pc = next]

\* The rest of authenticateUser: 401 for a missing user, else req.userId is
\* set and the handler runs to its first await (pc next).
UserFound(f, next) ==
  IF ~getUserById(f.bearer.rest)
  THEN Respond(f, 401, "UNAUTHORIZED", "Invalid user token")
  ELSE [f EXCEPT !.userId = f.bearer.rest, !.pc = next]

\* An audit row written on behalf of a user.
UserAuditEntry(eventType, entityType, entityId, actorId) ==
  [eventType |-> eventType, entityType |-> entityType, entityId |-> entityId,
   actorType |-> "User", actorId |-> actorId]

\* ObservabilityService.getAuditLogs({entityType, entityId}): the matching rows.
getAuditLogs(log, entityType, entityId) ==
  {e \in DOMAIN log : e.entityType = entityType /\ e.entityId = entityId}

\* `campaign_${Date.now()}`: the clock does not run backwards, so a new id is
\* the latest one handed out (same millisecond) or a later one.
LastCampaignId ==
  LET S == {e.entityId : e \in {x \in DOMAIN auditLog : x.entityType = "Campaign"}} IN
  IF S = {} THEN 0 ELSE CHOOSE c \in S : \A d \in S : d <= c

\* POST /campaigns; body.name is "null" when missing.
CreateCampaignStart(r) ==
  /\ FreeSlot(r)
  /\ \E b \in UserBearers, name \in {"null", "n1"} :
       req' = [req EXCEPT ![r] =
                 authenticateUser(b, [IdleFrame EXCEPT !.kind = "createCampaign",
                                                       !.name = name])]
  /\ nreq' = nreq + 1 /\ UNCHANGED aside
  /\ UNCHANGED db

CreateCampaignGetUserById(r) ==
  /\ req[r].kind = "createCampaign" /\ req[r].pc = "getUserById"
  /\ LET f == UserFound(req[r], "logEvent") IN
     req' = [req EXCEPT ![r] =
               IF f.pc # "done" /\ f.name = "null"
               THEN Respond(f, 400, "INVALID_REQUEST", "Campaign name is required")
               ELSE f]
  /\ UNCHANGED <<db, nreq, aside>>

\* The campaign exists only as its CAMPAIGN_CREATED audit row.
CreateCampaignLogEvent(r) ==
  /\ req[r].kind = "createCampaign" /\ req[r].pc = "logEvent"
  /\ \E c \in CampaignIds :
       /\ c \in {LastCampaignId, LastCampaignId + 1}
       /\ auditLog' = logEvent(auditLog, UserAuditEntry("CAMPAIGN_CREATED", "Campaign", c,
                                                        req[r].userId))
       /\ req' = [req EXCEPT ![r] = Respond([@ EXCEPT !.campaignId = c], 200, "null", "null")]
  /\ UNCHANGED <<accounts, agents, tokenStore, jobs, jobResults, riskScores, nreq, aside>>

\* GET /campaigns/:campaignId
GetCampaignStart(r) ==
  /\ FreeSlot(r)
  /\ \E b \in UserBearers, c \in CampaignIds :
       req' = [req EXCEPT ![r] =
                 authenticateUser(b, [IdleFrame EXCEPT !.kind = "getCampaign",
                                                       !.campaignId = c])]
  /\ nreq' = nreq + 1 /\ UNCHANGED aside
  /\ UNCHANGED db

GetCampaignGetUserById(r) ==
  /\ req[r].kind = "getCampaign" /\ req[r].pc = "getUserById"
  /\ req' = [req EXCEPT ![r] = UserFound(@, "getAuditLogs")]
  /\ UNCHANGED <<db, nreq, aside>>

\* logs.length === 0 ? 404 : 200, for the audit rows of the campaign.
CampaignResponse(f, log) ==
  IF getAuditLogs(log, "Campaign", f.campaignId) = {}
  THEN Respond(f, 404, "RESOURCE_NOT_FOUND", "Campaign not found")
  ELSE Respond(f, 200, "null", "null")

GetCampaignGetAuditLogs(r) ==
  /\ req[r].kind = "getCampaign" /\ req[r].pc = "getAuditLogs"
  /\ req' = [req EXCEPT ![r] = CampaignResponse(@, auditLog)]
  /\ UNCHANGED <<db, nreq, aside>>

NextCampaign ==
  \/ \E r \in Slots : CreateCampaignStart(r)
  \/ \E r \in Slots : CreateCampaignGetUserById(r)
  \/ \E r \in Slots : CreateCampaignLogEvent(r)
  \/ \E r \in Slots : GetCampaignStart(r)
  \/ \E r \in Slots : GetCampaignGetUserById(r)
  \/ \E r \in Slots : GetCampaignGetAuditLogs(r)

SpecCampaign == InitOneAgent /\ [][NextCampaign]_vars

\* C21: no decision depends on audit content: the answer of an operation is
\* the one it would give in the state that differs only in its audit log;
\* here, the status GET /campaigns/:campaignId answers is the status it
\* answers when the audit log is empty.
C21_AuditIndependence ==
  [][\A r \in Slots :
       (req[r].kind = "getCampaign" /\ req[r].pc = "getAuditLogs" /\ req'[r].pc = "done")
       => req'[r].http = CampaignResponse(req[r], EmptyBag).http]_vars


(***************************************************************************)
(* The wire layer: POST /agent/screenshots, POST /auth/login and the       *)
(* requests the middlewares and the payload checks turn away               *)
(***************************************************************************)
ScreenshotStages == {"BEFORE", "AFTER", "FAILURE"}

\* Authentication, then the validation of body.jobId and body.stage; the
\* stage is "null" when missing and DURING is not a stage.
ScreenshotsStart(r) ==
  /\ FreeSlot(r)
  /\ \E t \in IssuedTokens, j \in JobIds, st \in {"BEFORE", "FAILURE", "DURING", "null"} :
       LET f == authenticateAgent(t, [IdleFrame EXCEPT !.kind = "screenshots", !.pc = "logEvent",
                                                       !.jobId = j, !.stage = st]) IN
       /\ req' = [req EXCEPT ![r] =
                    IF f.pc # "done" /\ st \notin ScreenshotStages
                    THEN Respond(f, 400, "INVALID_REQUEST",
                                 "Invalid stage. Must be BEFORE, AFTER, or FAILURE")
                    ELSE f]
       /\ tokenStore' = StoreAfterValidate(tokenStore, t)
  /\ nreq' = nreq + 1 /\ UNCHANGED aside
  /\ UNCHANGED <<accounts, agents, jobs, jobResults, riskScores, auditLog>>

\* The SCREENSHOT_UPLOADED audit entry under the job id of the body.
ScreenshotsLogEvent(r) ==
  /\ req[r].kind = "screenshots" /\ req[r].pc = "logEvent"
  /\ auditLog' = logEvent(auditLog, AuditEntry("SCREENSHOT_UPLOADED", "Job", req[r].jobId,
                                               req[r].agentId))
  /\ req' = [req EXCEPT ![r] = Respond(@, 200, "null", "success")]
  /\ UNCHANGED <<accounts, agents, tokenStore, jobs, jobResults, riskScores, nreq, aside>>

\* POST /auth/login: no middleware; always 501.
AuthLogin(r) ==
  /\ FreeSlot(r)
  /\ \E b \in UserBearers :
       req' = [req EXCEPT ![r] =
                 Respond([IdleFrame EXCEPT !.kind = "login", !.bearer = b], 501,
                         "NOT_IMPLEMENTED", "Login handled by auth provider")]
  /\ nreq' = nreq + 1 /\ UNCHANGED aside
  /\ UNCHANGED db

\* Both planes, one request at a time, before any job is created.
NextWire ==
  \/ ExpireToken
  \/ \E r \in Slots : Quiescent /\ HeartbeatStart(r)
  \/ \E r \in Slots : HeartbeatUpdateAgent(r)
  \/ \E r \in Slots : HeartbeatGetAccount(r)
  \/ \E r \in Slots : HeartbeatGetLatestRiskScore(r)
  \/ \E r \in Slots : HeartbeatLogEvent(r)
  \/ \E r \in Slots : Quiescent /\ PostResultStart(r)
  \/ \E r \in Slots : PostResultGetJobById(r)
  \/ \E r \in Slots : Quiescent /\ PostEventsStart(r)
  \/ \E r \in Slots : PostEventsLogEvent(r)
  \/ \E r \in Slots : PostEventsGetJobById(r)
  \/ \E r \in Slots : Quiescent /\ RejectedAgentStart(r)
  \/ \E r \in Slots : Quiescent /\ ScreenshotsStart(r)
  \/ \E r \in Slots : ScreenshotsLogEvent(r)
  \/ \E r \in Slots : Quiescent /\ AuthLogin(r)
  \/ \E r \in Slots : Quiescent /\ CreateCampaignStart(r)
  \/ \E r \in Slots : CreateCampaignGetUserById(r)
  \/ \E r \in Slots : CreateCampaignLogEvent(r)
  \/ \E r \in Slots : Quiescent /\ GetCampaignStart(r)
  \/ \E r \in Slots : GetCampaignGetUserById(r)
  \/ \E r \in Slots : GetCampaignGetAuditLogs(r)

SpecWire == InitOneAgent /\ [][NextWire]_vars

\* The payload of an agent-plane request fails the handler's validation.
InvalidPayload(f) ==
  \/ f.kind = "heartbeat" /\ f.status \notin HeartbeatStatuses
  \/ f.kind = "result" /\ f.status \notin ResultStatuses
  \/ f.kind = "events" /\ f.eventType \notin EventTypes
  \/ f.kind = "screenshots" /\ f.stage \notin ScreenshotStages

\* The bearer of a control-plane request is the token of a user.
ValidUserToken(b) == b.prefix = "user_" /\ getUserById(b.rest)

\* Every step of the request in slot r obeys the wire layer, for control-plane
\* routes of the given kinds: without a valid agent token an agent-plane
\* request is answered 401 at once, with an invalid payload 400; without a
\* valid user token a control-plane request gets no further than getUserById
\* and is answered 401; none of these steps changes agent, job, job-result or
\* audit state.
WireLayer(r, kinds) ==
  LET f == req'[r]
      quiet == UNCHANGED <<agents, jobs, jobResults, auditLog>>
  IN /\ (nreq' = nreq + 1 /\ f.kind \in AgentPlaneKinds)
          => IF validateAgentToken(tokenStore, f.token) = NoTokenData
             THEN f.pc = "done" /\ f.http = 401 /\ f.errorCode = "UNAUTHORIZED" /\ quiet
             ELSE InvalidPayload(f)
                    => (f.pc = "done" /\ f.http = 400 /\ f.errorCode = "INVALID_REQUEST" /\ quiet)
     /\ (f.kind \in kinds /\ ~ValidUserToken(f.bearer))
          => /\ f.pc \in {"getUserById", "done"}
             /\ f.pc = "done" => (f.http = 401 /\ f.errorCode = "UNAUTHORIZED")
             /\ quiet

MaxViolations == 3    \* rows the Violation table may hold

\* createViolation({linkedInAccountId, severity, ...}): a row detected now
\* and not resolved.
CreateViolation ==
  /\ Len(violations) < MaxViolations
  /\ \E severity \in {"LOW", "MEDIUM", "HIGH", "CRITICAL"} :
       violations' = Append(violations, [linkedInAccountId |-> VetoAccount,
                                         severity |-> severity,
                                         resolvedAt |-> FALSE, recent |-> TRUE])
  /\ UNCHANGED <<db, req, nreq, scores, agent, wire>>

\* Time passes: the oldest violation still inside the 7-day window leaves it.
AgeViolation ==
  /\ \E k \in 1..Len(violations) :
       /\ violations[k].recent
       /\ \A i \in 1..(k - 1) : ~violations[i].recent
       /\ violations' = [violations EXCEPT ![k].recent = FALSE]
  /\ UNCHANGED <<db, req, nreq, scores, agent, wire>>

\* calculateRiskScore(a): ACCOUNT_NOT_FOUND before anything is written, else
\* the new latest RiskScore row of a.
CalculateRiskScore ==
  \E a \in {VetoAccount, UnknownAccountId} :
    IF getLinkedInAccountById(a) = NoAccount
    THEN UNCHANGED vars
    ELSE /\ scores' = [scores EXCEPT ![a] = RiskScoreOf(a)]
         /\ riskScores' = [riskScores EXCEPT ![a] = RiskLevelOf(RiskScoreOf(a))]
         /\ UNCHANGED <<accounts, agents, tokenStore, jobs, jobResults, auditLog, req, nreq,
                        violations, agent, wire>>

SpecRisk ==
  InitOneAgent /\ [][CreateViolation \/ AgeViolation \/ VetoUpdateAccount \/ CalculateRiskScore]_vars

\* The claimed score of account a, in tenths.
Tenths(a) ==
  LET rows == recentViolations(a)
      w(s) == CASE s = "LOW" -> 1 [] s = "MEDIUM" -> 3 [] s = "HIGH" -> 6 [] s = "CRITICAL" -> 10
      sum[k \in 0..Len(rows)] == IF k = 0 THEN 0 ELSE sum[k - 1] + w(rows[k].severity)
      h == accounts[a].healthStatus
      bonus == IF h = "SUSPENDED" THEN 5 ELSE IF h = "DEGRADED" THEN 2 ELSE 0
  IN Min(10, sum[Len(rows)] + bonus)

\* C29: the row calculateRiskScore persists holds min(1, sum of the weights
\* of the unresolved violations of the last 7 days + health bonus), up to the
\* rounding of one addition, and the level LOW below 0.3, MEDIUM below 0.6,
\* HIGH below 0.8 and CRITICAL from 0.8 on; the tables are untouched for a
\* missing account.
C29_RiskScore ==
  [][\A a \in AccountIds :
       (scores'[a] # scores[a] \/ riskScores'[a] # riskScores[a])
       => LET t == Tenths(a) IN
          /\ scores'[a][1] \div (Limb \div 10) \in {t - 1, t}
          /\ riskScores'[a] = (IF t < 3 THEN "LOW" ELSE IF t < 6 THEN "MEDIUM"
                               ELSE IF t < 8 THEN "HIGH" ELSE "CRITICAL")]_vars


(***************************************************************************)
(* The agent process (apps/agent): its heartbeat and poll timers and the   *)
(* job it executes.  Every call of sendHeartbeat or pollJobs that reaches   *)
(* an await is a task of agent.tasks, suspended at pc until the response    *)
(* of the backend, or the transport error, arrives; executeJob runs inside  *)
(* the pollJobs call that pulled the job.  Screenshot uploads are left out: *)
(* their errors are swallowed and they change no field.  wire.sent is the   *)
(* bag of requests sent, wire.handedOut the number of jobs the backend has  *)
(* handed to this agent (each pull hands out a job no earlier pull did) and *)
(* wire.heard what the latest heartbeat response or transport error on      *)
(* heartbeat or poll told the agent: "allowed" or "stop".                   *)
(***************************************************************************)
MaxTicks == 3    \* calls of sendHeartbeat and pollJobs that send a request

\* Pulls that can be in flight together: jobPolling.intervalSeconds is 5 and
\* a request times out after 10000 ms.
PollsInFlight == 2

Request(kind, jobId, body) == [kind |-> kind, jobId |-> jobId, body |-> body]

Task(kind, pc) == [kind |-> kind, pc |-> pc, job |-> 0]

Pending(kind, pc) == {k \in 1..Len(agent.tasks) : agent.tasks[k].kind = kind
                                                  /\ agent.tasks[k].pc = pc}

\* Agent.start: isRunning, then the initial sendHeartbeat() and pollJobs().
AgentStart ==
  /\ ~agent.isRunning
  /\ LET a0 == [agent EXCEPT !.isRunning = TRUE,
                             !.tasks = <<Task("heartbeat", "heartbeat"), Task("poll", "pullJobs")>>]
     IN /\ agent' = a0
        /\ wire' = [wire EXCEPT !.sent = SetToBag({Request("heartbeat", 0, "IDLE"),
                                                   Request("jobs", 0, "null")})]
  /\ UNCHANGED <<db, req, nreq, violations, scores>>

\* The heartbeat timer fires and sendHeartbeat runs up to its await; the
\* previous heartbeat has been answered or has timed out by then.
HeartbeatTick ==
  /\ agent.isRunning
  /\ Len(agent.tasks) < MaxTicks
  /\ Pending("heartbeat", "heartbeat") = {}
  /\ agent' = [agent EXCEPT !.tasks = Append(@, Task("heartbeat", "heartbeat"))]
  /\ wire' = [wire EXCEPT !.sent = @ (+) SetToBag({Request("heartbeat", agent.currentJob,
                                     IF agent.currentJob # 0 THEN "EXECUTING" ELSE "IDLE")})]
  /\ UNCHANGED <<db, req, nreq, violations, scores>>

\* The poll timer fires and pollJobs runs up to its await; it returns at
\* once, changing nothing, when execution is not allowed or a job is current.
PollTick ==
  /\ agent.isRunning /\ agent.executionAllowed
  /\ agent.currentJob = 0
  /\ Len(agent.tasks) < MaxTicks
  /\ Cardinality(Pending("poll", "pullJobs")) < PollsInFlight
  /\ agent' = [agent EXCEPT !.tasks = Append(@, Task("poll", "pullJobs"))]
  /\ wire' = [wire EXCEPT !.sent = @ (+) SetToBag({Request("jobs", 0, "null")})]
  /\ UNCHANGED <<db, req, nreq, violations, scores>>

\* The heartbeat of task k is answered {allowed}, or fails.
HeartbeatResponse(k) ==
  /\ k \in Pending("heartbeat", "heartbeat")
  /\ \E response \in {"allowed", "refused", "error"} :
       /\ agent' = [agent EXCEPT
                      !.tasks[k].pc = "done",
                      !.executionAllowed = (response = "allowed"),
                      !.currentJob = IF response = "refused" THEN 0 ELSE @]
       /\ wire' = [wire EXCEPT !.heard = IF response = "allowed" THEN "allowed" ELSE "stop"]
  /\ UNCHANGED <<db, req, nreq, violations, scores>>

\* The pull of task k is answered, or fails: an error stops the agent, an
\* empty list ends the call, and jobs[0] is handed to executeJob, which makes
\* it the current job and asks for the control state.
PullResponse(k) ==
  /\ k \in Pending("poll", "pullJobs")
  /\ \E response \in {"jobs", "empty", "error"} :
       IF response = "jobs"
       THEN LET j == wire.handedOut + 1 IN
            /\ agent' = [agent EXCEPT !.tasks[k] = [@ EXCEPT !.pc = "checkControlState", !.job = j],
                                      !.currentJob = j]
            /\ wire' = [wire EXCEPT !.handedOut = j,
                                    !.sent = @ (+) SetToBag({Request("control-state", j, "null")})]
       ELSE /\ agent' = [agent EXCEPT !.tasks[k].pc = "done",
                                      !.executionAllowed = IF response = "error" THEN FALSE ELSE @]
            /\ wire' = [wire EXCEPT !.heard = IF response = "error" THEN "stop" ELSE @]
  /\ UNCHANGED <<db, req, nreq, violations, scores>>

\* executeJob of task k resumes after an await.  outcome is "ok" for a
\* response (or the handler's result), "refused" for a control state that
\* does not allow execution and "error" for a rejected promise: a transport
\* error, an error status or the job timeout.  An error inside the try block
\* enters the catch block, which reports FAILED; an error inside the catch
\* block leaves executeJob for the catch of pollJobs.
ExecuteJobStep(k) ==
  /\ k \in 1..Len(agent.tasks)
  /\ agent.tasks[k].pc \in {"checkControlState", "actionStarted", "executeJob", "reportJobResult",
                            "actionCompleted", "catchReport", "catchWarning"}
  /\ \E outcome \in {"ok", "refused", "error"}, status \in ResultStatuses :
       LET pc == agent.tasks[k].pc
           j == agent.tasks[k].job
           try == pc \in {"checkControlState", "actionStarted", "executeJob", "reportJobResult",
                          "actionCompleted"}
           next == IF outcome = "error" /\ try THEN "catchReport"
                   ELSE IF outcome = "error" \/ outcome = "refused" THEN "done"
                   ELSE CASE pc = "checkControlState" -> "actionStarted"
                          [] pc = "actionStarted" -> "executeJob"
                          [] pc = "executeJob" -> "reportJobResult"
                          [] pc = "reportJobResult" -> "actionCompleted"
                          [] pc = "actionCompleted" -> "done"
                          [] pc = "catchReport" -> "catchWarning"
                          [] pc = "catchWarning" -> "done"
           request == CASE next = "actionStarted" -> {Request("events", j, "ACTION_STARTED")}
                        [] next = "reportJobResult" -> {Request("result", j, status)}
                        [] next = "actionCompleted" -> {Request("events", j, "ACTION_COMPLETED")}
                        [] next = "catchReport" -> {Request("result", j, "FAILED")}
                        [] next = "catchWarning" -> {Request("events", j, "WARNING")}
                        [] OTHER -> {}
       IN /\ outcome = "refused" => pc = "checkControlState"
          /\ status # "SUCCESS" => next = "reportJobResult"
          /\ agent' = [agent EXCEPT
                         !.tasks[k] = IF next = "done" THEN Task("poll", "done")
                                      ELSE [@ EXCEPT !.pc = next],
                         !.executionAllowed =
                           IF next = "done" /\ pc # "actionCompleted" THEN FALSE ELSE @,
                         !.currentJob = IF next = "done" THEN 0 ELSE @]
          /\ wire' = [wire EXCEPT !.sent = @ (+) SetToBag(request)]
  /\ UNCHANGED <<db, req, nreq, violations, scores>>

NextAgent ==
  \/ AgentStart
  \/ HeartbeatTick
  \/ PollTick
  \/ \E k \in 1..MaxTicks : HeartbeatResponse(k)
  \/ \E k \in 1..MaxTicks : PullResponse(k)
  \/ \E k \in 1..MaxTicks : ExecuteJobStep(k)

SpecAgent == InitOneAgent /\ [][NextAgent]_vars


\* C26: after a heartbeat response that does not allow execution, or a
\* transport error on heartbeat or poll, the agent sends no GET /agent/jobs
\* and starts no job until a heartbeat response allows execution again; and
\* it sends ACTION_STARTED for a job only on the control-state response
\* that allows execution for that job.
C26_StopsUntilReauthorized ==
  [][/\ CopiesIn(Request("jobs", 0, "null"), wire'.sent)
          > CopiesIn(Request("jobs", 0, "null"), wire.sent)
        => wire.heard # "stop"
     /\ \A k \in 1..Len(agent.tasks) :
          agent'.tasks[k].pc = "actionStarted" /\ agent.tasks[k].pc # "actionStarted"
            => wire.heard # "stop" /\ agent.tasks[k].pc = "checkControlState"]_vars

\* C27: at most one job is being executed at any time: no job is started
\* while a job started earlier has not yet reported its result.
C27_OneJobAtATime ==
  Cardinality(Pending("poll", "actionStarted") \cup Pending("poll", "executeJob")
              \cup Pending("poll", "reportJobResult") \cup Pending("poll", "catchReport")) <= 1

\* C28: for each job the agent sends at most one result request, also when
\* a request fails during execution or reporting, and it starts no job twice.
C28_NeverRetries ==
  \A j \in 1..MaxTicks :
    /\ BagCardinality([r \in {x \in BagToSet(wire.sent) : x.kind = "result" /\ x.jobId = j}
                         |-> wire.sent[r]]) <= 1
    /\ CopiesIn(Request("events", j, "ACTION_STARTED"), wire.sent) <= 1


(***************************************************************************)
(* The oracle: control-state calls of one agent and, between them, calls of *)
(* createViolation and calculateRiskScore, new jobs and the expiry of the   *)
(* agent's token.                                                           *)
(***************************************************************************)
NextOracle ==
  \/ Quiescent /\ CreateJob
  \/ Quiescent /\ ExpireToken
  \/ Quiescent /\ Len(violations) < 2 /\ CreateViolation
  \/ Quiescent /\ CalculateRiskScore
  \/ \E r \in Slots : Quiescent /\ ControlStateStart(r)
  \/ \E r \in Slots : ControlStateGetAccount(r)
  \/ \E r \in Slots : ControlStateGetLatestRiskScore(r)

SpecOracle == InitOneAgent /\ [][NextOracle]_vars

InitBacklog ==
  /\ InitRest
  /\ accounts = ("a1" :> ConnectedAccount("u1")) @@ ("a2" :> ConnectedAccount("u2"))
  /\ agents = (1 :> RegisteredAgent("a1")) @@ (2 :> RegisteredAgent("a2"))
  /\ tokenStore = (1 :> TokenData(1, "a1")) @@ (2 :> TokenData(2, "a2"))
  /\ jobs = [j \in 1..(AssignLimit + 2) |->
               [NoJob EXCEPT !.linkedInAccountId = IF j <= AssignLimit + 1 THEN "a1" ELSE "a2",
                             !.state = "PENDING", !.priority = 1, !.createdAt = j]]
  /\ jobResults = <<>>
  /\ riskScores = [a \in AccountIds |-> "null"]
  /\ auditLog = EmptyBag
  /\ req = [r \in Slots |-> IdleFrame]
  /\ nreq = 0

SpecBacklog ==
  InitBacklog /\ [][\E r \in Slots : GetJobsStart(r) \/ GetJobsFindMany(r) \/ GetJobsUpdateJob(r)]_vars

\* C34: the list a pull reads holds PENDING jobs of the token's account; a
\* pull answered 200 returns at most 5 jobs, each of them from that list and
\* now ASSIGNED to the calling agent; and no step of a pull changes a job it
\* does not return.
C34_PullEffect ==
  [][\A r \in Slots :
       req'[r].kind = "jobs" /\ req'[r] # req[r]
       => LET f == req'[r] IN
          /\ \A j \in DOMAIN jobs : jobs'[j] # jobs[j] => j \in Range(f.out)
          /\ req[r].pc = "findMany"
             => \A j \in Range(f.list) : /\ jobs[j].state = "PENDING"
                                         /\ jobs[j].linkedInAccountId = f.linkedInAccountId
          /\ f.pc = "done" /\ f.http = 200
             => /\ Len(f.out) <= 5
                /\ Range(f.out) \subseteq Range(req[r].list)
                /\ \A j \in Range(f.out) : /\ jobs'[j].state = "ASSIGNED"
                                           /\ jobs'[j].assignedAgentId = f.agentId
                                           /\ jobs'[j].linkedInAccountId = f.linkedInAccountId]_vars

\* C34 witness: a pull of agent 1 was answered with five jobs while a sixth
\* PENDING job of its account and the job of the other account were left
\* as they were.
C34_Witness ==
  \E r \in Slots :
    /\ req[r].kind = "jobs" /\ req[r].pc = "done" /\ req[r].http = 200
    /\ req[r].agentId = 1 /\ Len(req[r].out) = 5
    /\ jobs[AssignLimit + 1].state = "PENDING" /\ jobs[AssignLimit + 2].state = "PENDING"


(***************************************************************************)
(* Control plane: POST /risk/acknowledge, GET /linkedin-account and        *)
(* GET /screenshots.  body.violationId and the query parameter jobId are 0  *)
(* when missing.                                                            *)
(***************************************************************************)
DashboardStart(r, kind) ==
  /\ FreeSlot(r)
  /\ \E b \in UserBearers, j \in 0..MaxJobs, v \in 0..MaxViolations :
       /\ kind # "getScreenshots" => j = 0
       /\ kind # "acknowledge" => v = 0
       /\ req' = [req EXCEPT ![r] =
                    authenticateUser(b, [IdleFrame EXCEPT !.kind = kind, !.jobId = j,
                                                          !.violationId = v])]
  /\ nreq' = nreq + 1 /\ UNCHANGED aside
  /\ UNCHANGED db

\* The end of authenticateUser, then the handler up to its first await.
DashboardGetUserById(r) ==
  /\ req[r].kind \in {"acknowledge", "linkedin-account", "getScreenshots"}
  /\ req[r].pc = "getUserById"
  /\ LET kind == req[r].kind
         f == UserFound(req[r], CASE kind = "acknowledge" -> "logEvent"
                                  [] kind = "linkedin-account" -> "getLinkedInAccountByUserId"
                                  [] kind = "getScreenshots" -> "getAuditLogs") IN
     req' = [req EXCEPT ![r] =
               IF f.pc # "done" /\ kind = "acknowledge" /\ f.violationId = 0
               THEN Respond(f, 400, "INVALID_REQUEST", "violationId is required")
               ELSE IF f.pc # "done" /\ kind = "getScreenshots" /\ f.jobId = 0
               THEN Respond(f, 400, "INVALID_REQUEST", "jobId query parameter is required")
               ELSE f]
  /\ UNCHANGED <<db, nreq, aside>>

\* POST /risk/acknowledge: the RISK_ACKNOWLEDGED audit row, then {success: true}.
AcknowledgeLogEvent(r) ==
  /\ req[r].kind = "acknowledge" /\ req[r].pc = "logEvent"
  /\ auditLog' = logEvent(auditLog, UserAuditEntry("RISK_ACKNOWLEDGED", "Violation",
                                                   req[r].violationId, req[r].userId))
  /\ req' = [req EXCEPT ![r] = Respond(@, 200, "null", "null")]
  /\ UNCHANGED <<accounts, agents, tokenStore, jobs, jobResults, riskScores, nreq, aside>>

\* GET /screenshots: the SCREENSHOT_UPLOADED rows of the job of the query;
\* out lists the job whose screenshots the response carries.
GetScreenshotsGetAuditLogs(r) ==
  /\ req[r].kind = "getScreenshots" /\ req[r].pc = "getAuditLogs"
  /\ LET events == getAuditLogs(auditLog, "Job", req[r].jobId)
         screenshotEvents == {e \in events : e.eventType = "SCREENSHOT_UPLOADED"} IN
     req' = [req EXCEPT ![r] =
               Respond([@ EXCEPT !.out = IF screenshotEvents = {} THEN <<>> ELSE <<req[r].jobId>>],
                       200, "null", "null")]
  /\ UNCHANGED <<db, nreq, aside>>

\* LinkedInAccountService.getLinkedInAccountByUserId: findFirst; "null" for null.
getLinkedInAccountByUserId(u) ==
  LET rows == {a \in DOMAIN accounts : accounts[a].userId = u} IN
  IF rows = {} THEN "null" ELSE CHOOSE a \in rows : TRUE

\* riskLevel = riskScore?.riskLevel || 'NORMAL', then LOW -> NORMAL,
\* MEDIUM -> ELEVATED, HIGH -> HIGH and anything else -> BLOCKED.
apiRiskLevel(level) ==
  LET riskLevel == IF level = "null" THEN "NORMAL" ELSE level IN
  IF riskLevel = "LOW" THEN "NORMAL"
  ELSE IF riskLevel = "MEDIUM" THEN "ELEVATED"
  ELSE IF riskLevel = "HIGH" THEN "HIGH" ELSE "BLOCKED"

\* GET /linkedin-account after authentication: the account of the user (404
\* without one), its latest risk score, its agent, then the response, whose
\* riskLevel is kept in body.
GetLinkedInAccountStep(r) ==
  /\ req[r].kind = "linkedin-account"
  /\ req[r].pc \in {"getLinkedInAccountByUserId", "getLatestRiskScore", "getAgentByLinkedInAccountId"}
  /\ LET f == req[r]
         a == getLinkedInAccountByUserId(f.userId) IN
     req' = [req EXCEPT ![r] =
               CASE f.pc = "getLinkedInAccountByUserId" ->
                      IF a = "null"
                      THEN Respond(f, 404, "RESOURCE_NOT_FOUND", "LinkedIn account not found")
                      ELSE [f EXCEPT !.linkedInAccountId = a, !.account = accounts[a],
                                     !.pc = "getLatestRiskScore"]
                 [] f.pc = "getLatestRiskScore" ->
                      [f EXCEPT !.riskLevel = getLatestRiskScore(f.linkedInAccountId),
                                !.pc = "getAgentByLinkedInAccountId"]
                 [] f.pc = "getAgentByLinkedInAccountId" ->
                      Respond([f EXCEPT !.rowAgentId = getAgentByLinkedInAccountId(f.linkedInAccountId),
                                        !.body = apiRiskLevel(f.riskLevel)],
                              200, "null", "null")]
  /\ UNCHANGED <<db, nreq, aside>>

\* Acknowledgements of one user after the other, next to createViolation and
\* calculateRiskScore.
SpecAcknowledge ==
  InitOneAgent /\ [][\/ Quiescent /\ Len(violations) < 2 /\ CreateViolation
                     \/ Quiescent /\ CalculateRiskScore
                     \/ \E r \in Slots : \/ Quiescent /\ DashboardStart(r, "acknowledge")
                                         \/ DashboardGetUserById(r)
                                         \/ AcknowledgeLogEvent(r)]_vars

\* C35: after POST /risk/acknowledge was answered with success for a
\* violation, the violation has its resolvedAt set, so that it is left out
\* of every later calculateRiskScore.
C35_AcknowledgeResolves ==
  \A r \in Slots :
    (/\ req[r].kind = "acknowledge" /\ req[r].pc = "done" /\ req[r].http = 200
     /\ req[r].violationId \in 1..Len(violations))
    => violations[req[r].violationId].resolvedAt

\* GET /linkedin-account of one user after the other, next to an account
\* whose latest risk score changes.
SpecAccountStatus ==
  InitOneAgent /\ [][\/ VetoRiskScore
                     \/ \E r \in Slots : \/ Quiescent /\ DashboardStart(r, "linkedin-account")
                                         \/ DashboardGetUserById(r)
                                         \/ GetLinkedInAccountStep(r)]_vars

\* C38: GET /linkedin-account reports NORMAL for level LOW and for an account
\* without a RiskScore row, ELEVATED for MEDIUM, HIGH for HIGH and BLOCKED
\* for CRITICAL; BLOCKED is reported only for a latest level that makes
\* isExecutionAllowed answer RISK_PAUSE.
C38_ApiRiskLevel ==
  \A r \in Slots :
    (req[r].kind = "linkedin-account" /\ req[r].pc = "done" /\ req[r].http = 200)
    => /\ req[r].body = CASE req[r].riskLevel \in {"null", "LOW"} -> "NORMAL"
                          [] req[r].riskLevel = "MEDIUM" -> "ELEVATED"
                          [] req[r].riskLevel = "HIGH" -> "HIGH"
                          [] req[r].riskLevel = "CRITICAL" -> "BLOCKED"
       /\ req[r].body = "BLOCKED"
          => isExecutionAllowed(ConnectedAccount(req[r].userId), req[r].riskLevel)
               = Verdict(FALSE, "RISK_PAUSE")

\* Screenshot uploads of the agent of account a1 and GET /screenshots of
\* each user, one request at a time.
SpecScreenshots ==
  InitOneAgent /\ [][\/ CreateJob
                     \/ \E r \in Slots : \/ Quiescent /\ ScreenshotsStart(r)
                                         \/ ScreenshotsLogEvent(r)
                                         \/ Quiescent /\ DashboardStart(r, "getScreenshots")
                                         \/ DashboardGetUserById(r)
                                         \/ GetScreenshotsGetAuditLogs(r)]_vars

\* C39: a control-plane read is scoped to the caller: the screenshots a
\* response to an authenticated user carries belong to a job of an account
\* of that user.
C39_ReadsScoped ==
  \A r \in Slots :
    (req[r].kind = "getScreenshots" /\ req[r].pc = "done" /\ req[r].http = 200)
    => \A k \in 1..Len(req[r].out) :
         LET j == req[r].out[k] IN
         j \in DOMAIN jobs => accounts[jobs[j].linkedInAccountId].userId = req[r].userId


(***************************************************************************)
(* A pull whose database update fails                                      *)
(***************************************************************************)
\* prisma.job.update rejects in an iteration of the assignment loop (the
\* connection is lost, the statement times out): updateJob throws
\* UPDATE_FAILED and the handler answers 400 from its catch block.
GetJobsUpdateFails(r) ==
  /\ req[r].kind = "jobs" /\ req[r].pc = "updateJob"
  /\ req' = [req EXCEPT ![r] = Respond(@, 400, "UPDATE_FAILED", "Failed to update job")]
  /\ UNCHANGED <<db, nreq, aside>>

SpecPullFailure ==
  InitBacklog /\ [][\E r \in Slots : \/ GetJobsStart(r) \/ GetJobsFindMany(r)
                                     \/ GetJobsUpdateJob(r) \/ GetJobsUpdateFails(r)]_vars

\* C37: a pull that is answered with an error has left no job ASSIGNED: the
\* jobs a pull request has assigned are the jobs of its response.
C37_PullAllOrNothing ==
  [][\A r \in Slots :
       (req[r].kind = "jobs" /\ Busy(r) /\ req'[r].pc = "done" /\ req'[r].http # 200)
       => \A j \in Range(req'[r].out) : jobs'[j].state # "ASSIGNED"]_vars


(***************************************************************************)
(* Dispatch to the end: the agent of account a1, allowed throughout, and   *)
(* the backend, one round trip at a time and without a failing request.    *)
(* Each action is one exchange of the agent with the backend as the        *)
(* handlers above carry it out when no other request is in flight.          *)
(***************************************************************************)
\* pollJobs with no current job: the pull assigns the first AssignLimit
\* PENDING jobs of the account to the agent, and executeJob takes jobs[0].
LivePull ==
  /\ agent.executionAllowed /\ agent.currentJob = 0
  /\ \E found \in getJobsByLinkedInAccountId(QueueAccount, "PENDING", PullLimit) :
       LET ready == Take(found, AssignLimit) IN
       /\ jobs' = [j \in DOMAIN jobs |->
                     IF j \in Range(ready) THEN AssignJob(jobs[j], 1) ELSE jobs[j]]
       /\ agent' = [agent EXCEPT !.currentJob = IF ready = <<>> THEN 0 ELSE ready[1]]
  /\ UNCHANGED <<accounts, agents, tokenStore, jobResults, riskScores, auditLog, req, nreq,
                 violations, scores, wire>>

\* executeJob: the control state allows, and the ACTION_STARTED event moves
\* the ASSIGNED job to EXECUTING.
LiveStarted ==
  /\ agent.currentJob # 0
  /\ jobs[agent.currentJob].state = "ASSIGNED"
  /\ ExecutionAllowed(QueueAccount)
  /\ jobs' = [jobs EXCEPT ![agent.currentJob] = StartJob(@)]
  /\ auditLog' = logEvent(auditLog, AuditEntry("ACTION_STARTED", "Job", agent.currentJob, 1))
  /\ UNCHANGED <<accounts, agents, tokenStore, jobResults, riskScores, req, nreq, aside>>

\* executeJob: the handler ends with a status, the result is reported and
\* stored, and the finally block clears currentJob.
LiveReport ==
  /\ agent.currentJob # 0
  /\ jobs[agent.currentJob].state = "EXECUTING"
  /\ \E status \in ResultStatuses :
       /\ jobResults' = Append(jobResults,
                               [jobId |-> agent.currentJob, agentId |-> 1,
                                status |-> IF status = "SUCCESS" THEN "SUCCESS" ELSE "FAILED",
                                errorMessage |-> "null"])
       /\ jobs' = [jobs EXCEPT ![agent.currentJob] = CompleteJob(@, status, "null")]
  /\ auditLog' = logEvent(auditLog, AuditEntry("JOB_RESULT_REPORTED", "Job", agent.currentJob, 1))
  /\ agent' = [agent EXCEPT !.currentJob = 0]
  /\ UNCHANGED <<accounts, agents, tokenStore, riskScores, req, nreq, violations, scores, wire>>

NextLive == CreateQueuedJob \/ LivePull \/ LiveStarted \/ LiveReport

\* The timers of the agent keep firing and its requests are answered.
SpecLive ==
  /\ InitOneAgent /\ [][NextLive]_vars
  /\ WF_vars(LivePull) /\ WF_vars(LiveStarted) /\ WF_vars(LiveReport)

\* C36: every job a pull has moved to ASSIGNED eventually is in a terminal
\* state and has a JobResult.
C36_AssignedCompletes ==
  \A j \in 1..MaxQueue :
    (j \in DOMAIN jobs /\ jobs[j].state = "ASSIGNED")
      ~> (j \in DOMAIN jobs /\ jobs[j].state \in TerminalStates /\ getJobResultByJobId(j) # 0)

(***************************************************************************)
(* The whole backend: every operation above, from the state right after    *)
(* the accounts were created.  The specifications above are its parts,     *)
(* each started in a state this one reaches.                               *)
(***************************************************************************)
Init == InitRegister

Next == NextRegister \/ NextDispatch \/ NextVeto \/ NextQueue \/ NextSession

Spec == Init /\ [][Next]_vars

====
